---- MODULE Spec2Model ----
(***************************************************************************)
(* Model of the function-dispatch and response-normalization layer of      *)
(* mcp-qiskit: the HTTP route call_function (api/routes/mcp.py), the tool   *)
(* wrappers (main.py), the Execution Coordinator execute_circuit           *)
(* (circuits/execute_circuit.py), the Backend Enumerator                   *)
(* list_available_backends (circuits/ and tools/ generations) and the      *)
(* Circuit Compiler create_custom_circuit (circuits/ and tools/).          *)
(*                                                                         *)
(* The quantum SDK, the simulator, the cloud service and the renderer are  *)
(* external: every call into them either returns or raises, chosen         *)
(* nondeterministically.  Python strings are TLA+ strings; a dict is a     *)
(* function whose DOMAIN is the dict's key set.                            *)
(***************************************************************************)
EXTENDS Integers, Sequences, FiniteSets, TLC

----------------------------------------------------------------------------
(* Bounds of the model *)

\* largest classical-bit count of a parsed circuit
MaxClbits == 2
\* largest shot count a caller passes explicitly
MaxShots == 3
\* denominator of the probabilities the sampler reports (p = n / ProbDen)
ProbDen == 4
\* largest elapsed wall time measured around an execution
MaxElapsed == 1

----------------------------------------------------------------------------
(* Python values *)

\* parameters.get(key, default)
Get(parameters, key, default) ==
    IF key \in DOMAIN parameters THEN parameters[key] ELSE default

\* Python's None
None == "<None>"

\* marks a local variable that has not been assigned yet
Unbound == "<unbound>"

\* str.startswith
StartsWith(s, prefix) ==
    /\ Len(s) >= Len(prefix)
    /\ SubSeq(s, 1, Len(prefix)) = prefix

\* the characters str.strip() removes
Whitespace == {" ", "\t", "\n", "\r", "\f"}

RECURSIVE LStrip(_)
LStrip(s) ==
    IF Len(s) > 0 /\ SubSeq(s, 1, 1) \in Whitespace
    THEN LStrip(SubSeq(s, 2, Len(s)))
    ELSE s

RECURSIVE RStrip(_)
RStrip(s) ==
    IF Len(s) > 0 /\ SubSeq(s, Len(s), Len(s)) \in Whitespace
    THEN RStrip(SubSeq(s, 1, Len(s) - 1))
    ELSE s

\* str.strip
Strip(s) == RStrip(LStrip(s))

\* an exception object: its class and str(e)
Exc(type, msg) == [type |-> type, msg |-> msg]

\* no exception
NoException == Exc("", "")

\* what an external call can raise: a QiskitError or any other Exception
Raised == {Exc("QiskitError", "backend rejected the request"),
           Exc("Exception", "connection reset")}

----------------------------------------------------------------------------
(* Circuit Compiler: circuits/custom_circuit.py and tools/custom_circuit.py *)

\* the declaration token a complete program begins with
DeclarationToken == "OPENQASM"

\* the canonical header prepended to a bare gate sequence
CanonicalHeader == "OPENQASM 2.0;\ninclude \"qelib1.inc\";\n\n"

\* the header test without strip(): leading whitespace hides the declaration
NormalizeHeaderUnstripped(qasm_code) ==
    IF ~ StartsWith(qasm_code, DeclarationToken)
    THEN CanonicalHeader \o qasm_code
    ELSE qasm_code

\* the text handed to QuantumCircuit.from_qasm_str
NormalizeHeader(qasm_code) ==
    IF ~ StartsWith(Strip(qasm_code), DeclarationToken)
    THEN CanonicalHeader \o qasm_code
    ELSE qasm_code

UpperCase == "ABCDEFGHIJKLMNOPQRSTUVWXYZ"
LowerCase == "abcdefghijklmnopqrstuvwxyz"

LowerChar(c) ==
    IF \E i \in 1..Len(UpperCase) : SubSeq(UpperCase, i, i) = c
    THEN LET i == CHOOSE j \in 1..Len(UpperCase) : SubSeq(UpperCase, j, j) = c
         IN  SubSeq(LowerCase, i, i)
    ELSE c

\* str.lower
RECURSIVE Lower(_)
Lower(s) ==
    IF Len(s) = 0 THEN s
    ELSE LowerChar(SubSeq(s, 1, 1)) \o Lower(SubSeq(s, 2, Len(s)))

\* the positions at which sub occurs in s
Occurrences(s, sub) ==
    {i \in 1..(Len(s) - Len(sub) + 1) : SubSeq(s, i, i + Len(sub) - 1) = sub}

\* sub in s
Contains(s, sub) == Occurrences(s, sub) # {}

Min(S) == CHOOSE x \in S : \A y \in S : x <= y
Max(S) == CHOOSE x \in S : \A y \in S : x >= y

\* s.split(sep)[-1], for a separator that cannot overlap itself
SplitLast(s, sep) ==
    IF Contains(s, sep)
    THEN SubSeq(s, Max(Occurrences(s, sep)) + Len(sep), Len(s))
    ELSE s

\* s.split(sep)[1], for a one-character separator that occurs in s
SplitSecond(s, sep) ==
    LET first == Min(Occurrences(s, sep))
        later == {i \in Occurrences(s, sep) : i > first}
        stop  == IF later = {} THEN Len(s) + 1 ELSE Min(later)
    IN  SubSeq(s, first + 1, stop - 1)

\* the classification matching the parser's text as it is, without lower()
ClassifyCircuitsCaseSensitive(error_msg) ==
    IF Contains(error_msg, "syntax error")
    THEN LET line_info == IF Contains(error_msg, "line")
                          THEN Strip(SplitLast(error_msg, "line")) ELSE ""
         IN  Exc("ValueError",
                 "QASM syntax error " \o line_info \o ". Please check your QASM code.")
    ELSE IF Contains(error_msg, "unregistered") /\ Contains(error_msg, "gate")
    THEN LET gate == IF Contains(error_msg, "'")
                     THEN SplitSecond(error_msg, "'") ELSE "gate"
         IN  Exc("ValueError",
                 "Unregistered gate '" \o gate
                    \o "'. Make sure to include 'qelib1.inc' for standard gates.")
    ELSE IF Contains(error_msg, "not defined")
    THEN LET item == IF Contains(error_msg, "'")
                     THEN SplitSecond(error_msg, "'") ELSE "item"
         IN  Exc("ValueError",
                 "'" \o item
                    \o "' is not defined. Make sure all registers are declared before use.")
    ELSE Exc("ValueError", "Error in QASM code: " \o error_msg)

\* the ValueError raised for a QiskitError of the parser, circuits/ generation
ClassifyCircuits(error_msg) ==
    IF Contains(Lower(error_msg), "syntax error")
    THEN LET line_info == IF Contains(error_msg, "line")
                          THEN Strip(SplitLast(error_msg, "line")) ELSE ""
         IN  Exc("ValueError",
                 "QASM syntax error " \o line_info \o ". Please check your QASM code.")
    ELSE IF Contains(Lower(error_msg), "unregistered") /\ Contains(Lower(error_msg), "gate")
    THEN LET gate == IF Contains(error_msg, "'")
                     THEN SplitSecond(error_msg, "'") ELSE "gate"
         IN  Exc("ValueError",
                 "Unregistered gate '" \o gate
                    \o "'. Make sure to include 'qelib1.inc' for standard gates.")
    ELSE IF Contains(Lower(error_msg), "not defined")
    THEN LET item == IF Contains(error_msg, "'")
                     THEN SplitSecond(error_msg, "'") ELSE "item"
         IN  Exc("ValueError",
                 "'" \o item
                    \o "' is not defined. Make sure all registers are declared before use.")
    ELSE Exc("ValueError", "Error in QASM code: " \o error_msg)

\* the ValueError raised for a QiskitError of the parser, tools/ generation
ClassifyTools(error_msg) ==
    IF Contains(Lower(error_msg), "syntax error")
    THEN LET line_info == IF Contains(error_msg, "line")
                          THEN Strip(SplitLast(error_msg, "line")) ELSE ""
         IN  Exc("ValueError", "QASM syntax error " \o line_info)
    ELSE IF Contains(Lower(error_msg), "unregistered") /\ Contains(Lower(error_msg), "gate")
    THEN LET gate == IF Contains(error_msg, "'")
                     THEN SplitSecond(error_msg, "'") ELSE "gate"
         IN  Exc("ValueError", "Unregistered gate '" \o gate \o "'")
    ELSE IF Contains(Lower(error_msg), "not defined")
    THEN LET item == IF Contains(error_msg, "'")
                     THEN SplitSecond(error_msg, "'") ELSE "item"
         IN  Exc("ValueError", "'" \o item \o "' is not defined")
    ELSE Exc("ValueError", "QASM error: " \o error_msg)

\* A call into the SDK either returns a value or raises:
\* [kind |-> "return", value |-> v] or [kind |-> "raise", exc |-> e].
Returns(v) == [kind |-> "return", value |-> v]
Raises(e)  == [kind |-> "raise", exc |-> e]

\* create_custom_circuit, given what the parser does with the text handed to it
CompileOutcome(gen, parsed) ==
    IF parsed.kind = "return" THEN parsed
    ELSE IF parsed.exc.type = "QiskitError"
         THEN Raises(IF gen = "circuits" THEN ClassifyCircuits(parsed.exc.msg)
                                         ELSE ClassifyTools(parsed.exc.msg))
         ELSE Raises(Exc("ValueError",
                         (IF gen = "circuits" THEN "Error processing QASM code: "
                                              ELSE "Processing error: ")
                            \o parsed.exc.msg))

----------------------------------------------------------------------------
(* Probability-to-count conversion of the remote path *)

\* round(n / d) for d > 0: to the nearest integer, a tie to the even one
RoundHalfEven(n, d) ==
    LET q == n \div d
        r == n % d
    IN  IF 2 * r < d THEN q
        ELSE IF 2 * r > d THEN q + 1
        ELSE IF q % 2 = 0 THEN q ELSE q + 1

\* the count rounded up instead of to the nearest integer
ShotCountCeiling(num, shots) == -((-(num * shots)) \div ProbDen)

\* int(round(probability * shots)), the probability being num / ProbDen
ShotCount(num, shots) == RoundHalfEven(num * shots, ProbDen)

RECURSIVE BinaryDigits(_)
BinaryDigits(k) ==
    IF k < 2 THEN (IF k = 1 THEN "1" ELSE "0")
    ELSE BinaryDigits(k \div 2) \o (IF k % 2 = 1 THEN "1" ELSE "0")

RECURSIVE ZeroPad(_, _)
ZeroPad(s, width) == IF Len(s) >= width THEN s ELSE ZeroPad("0" \o s, width)

\* format(bitstring, 'b'): the binary digits without the zero padding
FormatBinaryUnpadded(bitstring, num_clbits) == BinaryDigits(bitstring)

\* format(bitstring, f'0{num_clbits}b') for a non-negative outcome index
FormatBinary(bitstring, num_clbits) == ZeroPad(BinaryDigits(bitstring), num_clbits)

\* the loop with the test count >= 0: an entry rounded to zero is emitted
FormatCountsKeepingZeros(quasi_dist, shots, num_clbits) ==
    LET kept == {k \in DOMAIN quasi_dist : ShotCount(quasi_dist[k], shots) >= 0}
        keys == {FormatBinary(k, num_clbits) : k \in kept}
    IN  [b \in keys |->
            ShotCount(quasi_dist[CHOOSE k \in kept : FormatBinary(k, num_clbits) = b],
                      shots)]

\* formatted_counts after the loop over counts.items(); quasi_dist maps each
\* outcome index to the numerator of its probability
FormatCounts(quasi_dist, shots, num_clbits) ==
    LET kept == {k \in DOMAIN quasi_dist : ShotCount(quasi_dist[k], shots) > 0}
        keys == {FormatBinary(k, num_clbits) : k \in kept}
    IN  [b \in keys |->
            ShotCount(quasi_dist[CHOOSE k \in kept : FormatBinary(k, num_clbits) = b],
                      shots)]

RECURSIVE SumOver(_, _)
SumOver(f, S) ==
    IF S = {} THEN 0
    ELSE LET x == CHOOSE y \in S : TRUE IN f[x] + SumOver(f, S \ {x})

\* sum(counts.values())
TotalCount(counts) == SumOver(counts, DOMAIN counts)

----------------------------------------------------------------------------
(* What the external SDK and service can hand back *)

\* largest outcome index the sampler reports
MaxIndex == 3
\* largest number of outcome indices in one reported distribution
MaxOutcomes == 3

\* a parsed circuit: the text it was parsed from and its register sizes
Circuit(text, n) == [qasm |-> text, num_qubits |-> n, num_clbits |-> n]

\* the value of the local variable circuit before it is assigned
NoCircuit == [qasm |-> Unbound, num_qubits |-> 0, num_clbits |-> 0]

\* str(e) of the QiskitErrors the parser raises
ParserErrorTexts ==
    {"Syntax Error near line 3 ", "Unregistered gate 'foo' used",
     "'q' is not defined", "unexpected end of input",
     "syntax error: gate 'u9' is not defined"}

\* what QuantumCircuit.from_qasm_str can raise
ParseRaised ==
    {Exc("QiskitError", m) : m \in ParserErrorTexts}
        \cup {Exc("Exception", "maximum recursion depth exceeded")}

\* what QuantumCircuit.from_qasm_str can do with a text
ParseOutcomes(text) ==
    {Returns(Circuit(text, n)) : n \in 1..MaxClbits}
        \cup {Raises(e) : e \in ParseRaised}

\* the text rendering of a circuit (circuit.draw(output='text'))
TextDrawing(circuit) == "<drawing of " \o circuit.qasm \o ">"

\* the tallies result.get_counts can report for a local run
LocalTallies(n) ==
    {("0" :> n), ("0" :> (n \div 2)) @@ ("1" :> (n - (n \div 2)))}

\* quasi-distributions as the sampler reports them: outcome index -> numerator
\* of the (quasi-)probability over ProbDen, the probabilities adding up to 1;
\* at most `most` of the given indices are present
QuasiDistsOver(indices, most) ==
    UNION {{d \in [K -> (-1)..(ProbDen + 1)] : SumOver(d, K) = ProbDen} :
             K \in {S \in SUBSET indices : S # {} /\ Cardinality(S) <= most}}

\* all the quasi-distributions within the bounds
QuasiDists == QuasiDistsOver(0..MaxIndex, MaxOutcomes)

\* the quasi-distributions a sampled one-bit measurement reports
SamplerDists == QuasiDistsOver({0, 1}, 2)

----------------------------------------------------------------------------
(* Requests *)

HttpFunctions ==
    {"List available backends", "Create a bell quantum circuit",
     "Create a custom quantum circuit", "Execute quantum circuit"}

\* names call_function does not recognise
UnknownFunctions == {"frobnicate", "execute_circuit"}

\* the tools main.py registers
ToolFunctions ==
    {"list_backends", "create_bell_circuit", "create_custom_circuit", "execute_circuit"}

\* the functions of the tools/ generation, called directly
DirectFunctions == {"list_available_backends", "create_custom_circuit"}

\* circuit sources a caller sends
SourceTexts == {"OPENQASM 2.0;\nqreg q[1];", "h q[0];"}

BackendNames == {"aer_simulator", "qasm_simulator", "ibm_brisbane"}

\* a key that may be absent from the parameters
Optional(key, values) == {<<>>} \cup {key :> v : v \in values}

\* the parameters a caller can send with a function name; the tool protocol
\* and a direct call always supply the required argument
ParametersOf(s, name) ==
    IF name \in {"Execute quantum circuit", "execute_circuit"}
    THEN {q @@ n @@ b :
             q \in {m \in Optional("qasm_code", {""} \cup SourceTexts) :
                      s = "http" \/ m # <<>>},
             n \in Optional("shots", 1..MaxShots),
             b \in Optional("backend", BackendNames)}
    ELSE IF name \in {"Create a custom quantum circuit", "create_custom_circuit"}
    THEN {m \in Optional("instructions", {""} \cup SourceTexts) :
             s = "http" \/ m # <<>>}
    ELSE {<<>>}

----------------------------------------------------------------------------
(* State *)

VARIABLES
    HAS_AER, HAS_IBM_PROVIDER, HAS_IBM_RUNTIME,  \* capability flags
    pc,               \* position of the call being served
    surface,          \* "http" (mcp.py), "tool" (main.py), "direct" (tools/)
    function_name,    \* request.name
    parameters,       \* request.parameters
    backend,          \* local variable backend of call_function
    qasm_code, shots, backend_name,   \* arguments of execute_circuit
    circuit, circuit_drawing,         \* locals of execute_circuit
    exc,              \* the exception execute_circuit's handler caught
    quasi,            \* result.quasi_dists[0]
    session,          \* "none", "open" or "closed"
    backends, active_account,         \* locals of list_available_backends
    calls,            \* the calls made while serving the request, in order
    result,           \* what the delegate (or the route's try body) produced
    response,         \* what the caller gets back
    parser, compiled, \* compiler runs against one fixed parser
    suspended         \* the locals of a second call in flight, while the
                      \* first one is the one taking steps

flags   == <<HAS_AER, HAS_IBM_PROVIDER, HAS_IBM_RUNTIME>>
request == <<surface, function_name, parameters>>
ecVars  == <<qasm_code, shots, backend_name, circuit, circuit_drawing, exc, quasi, session>>
lbVars  == <<backends, active_account>>
ccVars  == <<parser, compiled, suspended>>
reply   == <<result, response>>
vars    == <<flags, pc, request, backend, ecVars, lbVars, calls, reply, ccVars>>

NoResponse  == [kind |-> "none"]
NoResult    == [kind |-> "none"]

\* a call into a delegate or into the SDK, as logged in calls: what was
\* called, its argument, and str(e) of the exception it raised ("" if none)
Call(op, arg, o) ==
    [op |-> op, arg |-> arg, error |-> IF o.kind = "raise" THEN o.exc.msg ELSE ""]

\* a delegate is entered; how it ends is in result
Enter(op, arg) == [op |-> op, arg |-> arg, error |-> ""]

\* the capability flags as the imports of execute_circuit.py leave them: the
\* runtime import is only attempted once the provider import succeeded
FlagsInit ==
    /\ HAS_AER \in BOOLEAN
    /\ HAS_IBM_PROVIDER \in BOOLEAN
    /\ HAS_IBM_RUNTIME \in BOOLEAN
    /\ HAS_IBM_RUNTIME => HAS_IBM_PROVIDER

Init ==
    /\ FlagsInit
    /\ pc = "idle"
    /\ surface = "http" /\ function_name = "" /\ parameters = <<>>
    /\ backend = Unbound
    /\ qasm_code = Unbound /\ shots = 0 /\ backend_name = Unbound
    /\ circuit = NoCircuit /\ circuit_drawing = Unbound
    /\ exc = NoException /\ quasi = <<>> /\ session = "none"
    /\ backends = <<>> /\ active_account = Unbound
    /\ calls = <<>>
    /\ result = NoResult
    /\ response = NoResponse
    /\ parser = <<>> /\ compiled = <<>>
    /\ suspended = <<>>

----------------------------------------------------------------------------
(* A request arrives *)

\* the functions a caller can name on each surface
FunctionsOf(s) ==
    CASE s = "http"   -> HttpFunctions \cup UnknownFunctions
      [] s = "tool"   -> ToolFunctions
      [] s = "direct" -> DirectFunctions

\* the generation of the delegates a surface reaches
Generation == IF surface = "direct" THEN "tools" ELSE "circuits"

\* A FunctionCall is received by an idle server.
Receive ==
    /\ pc = "idle"
    /\ \E s \in {"http", "tool", "direct"} :
         \E name \in FunctionsOf(s) :
           \E p \in ParametersOf(s, name) :
             /\ surface' = s
             /\ function_name' = name
             /\ parameters' = p
    /\ pc' = "dispatch"
    /\ UNCHANGED <<flags, backend, ecVars, lbVars, calls, reply, ccVars>>

\* The response has gone out: the call's locals are dropped, and nothing but
\* the capability flags is left for the next call.
Complete ==
    /\ pc = "done"
    /\ pc' = "idle"
    /\ surface' = "http" /\ function_name' = "" /\ parameters' = <<>>
    /\ backend' = Unbound
    /\ qasm_code' = Unbound /\ shots' = 0 /\ backend_name' = Unbound
    /\ circuit' = NoCircuit /\ circuit_drawing' = Unbound
    /\ exc' = NoException /\ quasi' = <<>> /\ session' = "none"
    /\ backends' = <<>> /\ active_account' = Unbound
    /\ calls' = <<>>
    /\ result' = NoResult
    /\ response' = NoResponse
    /\ UNCHANGED <<flags, ccVars>>

----------------------------------------------------------------------------
(* Dispatch Router: api/routes/mcp.py call_function, and main.py *)

HttpOk(body)       == [kind |-> "http", status |-> 200, body |-> body]
HttpError(detail)  == [kind |-> "http", status |-> 400, detail |-> detail]
\* an exception that leaves call_function: the server answers 500
Unhandled(e)       == [kind |-> "unhandled", exc |-> e]
ToolResult(value)  == [kind |-> "tool_result", body |-> value]
ToolError(e)       == [kind |-> "tool_error", exc |-> e]

\* the except branch of the 'Execute quantum circuit' route (mcp.py 94-105);
\* it reads the local variable backend, which line 88 assigns
ExecuteRouteHandler(e, backend_value) ==
    IF backend_value = Unbound
    THEN Unhandled(Exc("UnboundLocalError",
                       "local variable 'backend' referenced before assignment"))
    ELSE HttpOk([status |-> "error",
                 message |-> "Error executing circuit: " \o e.msg,
                 error |-> "Error executing circuit: " \o e.msg,
                 circuit_drawing |-> "Error: Could not generate circuit drawing",
                 backend_name |-> backend_value,
                 execution_time |-> None,
                 counts |-> None])

\* the prefix each route puts before the text of an escalated exception
ErrorLabel(name) ==
    CASE name = "List available backends"         -> "Error listing backends: "
      [] name = "Create a bell quantum circuit"   -> "Error creating Bell circuit: "
      [] name = "Create a custom quantum circuit" -> "Error creating custom circuit: "

\* every route folding an exception into a normal response, as the execute
\* route does
ReplyFoldingErrors(outcome, backend_value) ==
    IF surface = "http"
    THEN IF outcome.kind = "return" THEN HttpOk(outcome.value)
         ELSE ExecuteRouteHandler(outcome.exc, backend_value)
    ELSE IF outcome.kind = "return" THEN ToolResult(outcome.value)
         ELSE ToolError(outcome.exc)

\* what the caller gets once the delegate returned or raised
Reply(outcome, backend_value) ==
    IF surface = "http"
    THEN IF outcome.kind = "return" THEN HttpOk(outcome.value)
         ELSE IF function_name = "Execute quantum circuit"
              THEN ExecuteRouteHandler(outcome.exc, backend_value)
              ELSE HttpError(ErrorLabel(function_name) \o outcome.exc.msg)
    ELSE IF outcome.kind = "return" THEN ToolResult(outcome.value)
         ELSE ToolError(outcome.exc)

\* the delegate is done: the call ends with the caller's response
Finish(outcome) ==
    /\ result' = outcome
    /\ response' = Reply(outcome, backend)
    /\ pc' = "done"

\* a list route that also takes every name call_function does not recognise
IsListOrUnrecognised ==
    \/ surface = "http" /\ function_name = "List available backends"
    \/ surface = "http" /\ function_name \notin HttpFunctions
    \/ surface = "tool" /\ function_name = "list_backends"
    \/ surface = "direct" /\ function_name = "list_available_backends"

\* which operation a name selects: call_function compares request.name with
\* its four identifiers, main.py registers four tool names, and the tools/
\* generation is called by function name
IsList ==
    \/ surface = "http" /\ function_name = "List available backends"
    \/ surface = "tool" /\ function_name = "list_backends"
    \/ surface = "direct" /\ function_name = "list_available_backends"
IsBell ==
    \/ surface = "http" /\ function_name = "Create a bell quantum circuit"
    \/ surface = "tool" /\ function_name = "create_bell_circuit"
IsCustom ==
    \/ surface = "http" /\ function_name = "Create a custom quantum circuit"
    \/ surface \in {"tool", "direct"} /\ function_name = "create_custom_circuit"
IsExecute ==
    \/ surface = "http" /\ function_name = "Execute quantum circuit"
    \/ surface = "tool" /\ function_name = "execute_circuit"

\* call_function, 'List available backends' (mcp.py 40-42); main.py 51-53
RouteListBackends ==
    /\ pc = "dispatch" /\ IsList
    /\ calls' = Append(calls, Enter("list_available_backends", ""))
    /\ pc' = "lb_local"
    /\ UNCHANGED <<flags, request, backend, ecVars, lbVars, reply, ccVars>>

\* the pre-baked diagram get_bell_circuit_ascii returns (abridged)
BellAscii == "q_0: -H-*-M-\nq_1: ---X-M-"

\* call_function, 'Create a bell quantum circuit' (mcp.py 48-56); main.py 56-62
RouteBell ==
    /\ pc = "dispatch" /\ IsBell
    /\ \E o \in {Returns(Circuit("<bell>", 2))} \cup {Raises(e) : e \in Raised} :
         /\ calls' = Append(calls, Call("create_bell_circuit", "", o))
         /\ IF o.kind = "return"
            THEN Finish(Returns([circuit_representation |-> TextDrawing(o.value),
                                 circuit_drawing |-> BellAscii]))
            ELSE Finish(o)
    /\ UNCHANGED <<flags, request, backend, ecVars, lbVars, ccVars>>

\* the custom route calling the delegate before it looks at instructions
RouteCustomUnchecked ==
    /\ pc = "dispatch" /\ IsCustom
    /\ calls' = Append(calls, Enter("create_custom_circuit",
                                    Get(parameters, "instructions", "")))
    /\ pc' = "cc_parse"
    /\ UNCHANGED <<flags, request, backend, ecVars, lbVars, reply, ccVars>>

\* call_function, 'Create a custom quantum circuit' up to the delegate's call
\* (mcp.py 59-66); main.py 65-67; a direct call of tools/custom_circuit.py
RouteCustom ==
    /\ pc = "dispatch" /\ IsCustom
    /\ LET instructions == Get(parameters, "instructions", "")
       IN  IF surface = "http" /\ instructions = ""
           THEN /\ Finish(Raises(Exc("ValueError", "Instructions parameter is required")))
                /\ UNCHANGED calls
           ELSE /\ calls' = Append(calls, Enter("create_custom_circuit", instructions))
                /\ pc' = "cc_parse"
                /\ UNCHANGED reply
    /\ UNCHANGED <<flags, request, backend, ecVars, lbVars, ccVars>>

\* the execute route with defaults of the tool surface that differ from the
\* HTTP surface's
RouteExecuteOtherToolDefaults ==
    /\ pc = "dispatch" /\ IsExecute
    /\ LET code == Get(parameters, "qasm_code", "")
       IN  IF surface = "http" /\ code = ""
           THEN /\ Finish(Raises(Exc("ValueError", "qasm_code parameter is required")))
                /\ UNCHANGED <<backend, qasm_code, shots, backend_name, calls>>
           ELSE /\ backend' = IF surface = "http"
                           THEN Get(parameters, "backend", "aer_simulator")
                           ELSE Unbound
                /\ qasm_code' = code
                /\ shots' = Get(parameters, "shots",
                                IF surface = "http" THEN 1024 ELSE 1000)
                /\ backend_name' = Get(parameters, "backend",
                                       IF surface = "http" THEN "aer_simulator"
                                       ELSE "qasm_simulator")
                /\ calls' = Append(calls, Enter("execute_circuit", code))
                /\ pc' = "ec_parse"
                /\ UNCHANGED reply
    /\ UNCHANGED <<flags, request, circuit, circuit_drawing, exc, quasi, session,
                   lbVars, ccVars>>

\* call_function, 'Execute quantum circuit' up to the delegate's call
\* (mcp.py 81-92); main.py 77-79
RouteExecute ==
    /\ pc = "dispatch" /\ IsExecute
    /\ LET code == Get(parameters, "qasm_code", "")
       IN  IF surface = "http" /\ code = ""
           THEN /\ Finish(Raises(Exc("ValueError", "qasm_code parameter is required")))
                /\ UNCHANGED <<backend, qasm_code, shots, backend_name, calls>>
           ELSE /\ backend' = IF surface = "http"
                           THEN Get(parameters, "backend", "aer_simulator")
                           ELSE Unbound
                /\ qasm_code' = code
                /\ shots' = Get(parameters, "shots", 1024)
                /\ backend_name' = Get(parameters, "backend", "aer_simulator")
                /\ calls' = Append(calls, Enter("execute_circuit", code))
                /\ pc' = "ec_parse"
                /\ UNCHANGED reply
    /\ UNCHANGED <<flags, request, circuit, circuit_drawing, exc, quasi, session,
                   lbVars, ccVars>>

\* call_function, the final else (mcp.py 108-109)
RouteUnknown ==
    /\ pc = "dispatch"
    /\ ~ (IsList \/ IsBell \/ IsCustom \/ IsExecute)
    /\ response' = HttpError("Unknown function: " \o function_name)
    /\ pc' = "done"
    /\ UNCHANGED result
    /\ UNCHANGED <<flags, request, backend, ecVars, lbVars, calls, ccVars>>

----------------------------------------------------------------------------
(* Execution Coordinator: circuits/execute_circuit.py execute_circuit *)

CouldNotDraw == "Could not generate circuit drawing"

\* an error outcome that spells out the missing fields as None
ErrorOutcomeWithNones(message, drawing, name) ==
    [status |-> "error", message |-> message,
     circuit_drawing |-> drawing, backend_name |-> name,
     execution_time |-> None, counts |-> None]

\* an error outcome built without the diagram
ErrorOutcomeNoDrawing(message, drawing, name) ==
    [status |-> "error", message |-> message, backend_name |-> name]

ErrorOutcome(message, drawing, name) ==
    [status |-> "error", message |-> message,
     circuit_drawing |-> drawing, backend_name |-> name]

SuccessOutcome(tally, drawing, name, elapsed) ==
    [status |-> "success", counts |-> tally, circuit_drawing |-> drawing,
     backend_name |-> name, execution_time |-> elapsed]

\* an SDK call that returns nothing the model keeps, or raises
CallOutcomes == {Returns(None)} \cup {Raises(e) : e \in Raised}

\* execute_circuit without its outer except clauses: the exception leaves it
Propagated(e) ==
    /\ exc' = e
    /\ result' = Raises(e)
    /\ response' = Reply(Raises(e), backend)
    /\ pc' = "done"

\* an exception reaches the outer except clauses (lines 191, 207)
Caught(e) ==
    /\ exc' = e
    /\ pc' = "ec_handler_parse"
    /\ UNCHANGED reply

\* the parse with the header patched as create_custom_circuit patches it
ECParseNormalizing ==
    /\ pc = "ec_parse"
    /\ \E o \in ParseOutcomes(NormalizeHeader(qasm_code)) :
         /\ calls' = Append(calls, Call("from_qasm_str", NormalizeHeader(qasm_code), o))
         /\ IF o.kind = "return"
            THEN /\ circuit' = o.value
                 /\ pc' = "ec_draw"
                 /\ UNCHANGED <<exc, reply>>
            ELSE /\ Caught(o.exc)
                 /\ UNCHANGED circuit
    /\ UNCHANGED <<flags, request, backend, qasm_code, shots, backend_name,
                   circuit_drawing, quasi, session, lbVars, ccVars>>

\* line 52: circuit = QuantumCircuit.from_qasm_str(qasm_code)
ECParse ==
    /\ pc = "ec_parse"
    /\ \E o \in ParseOutcomes(qasm_code) :
         /\ calls' = Append(calls, Call("from_qasm_str", qasm_code, o))
         /\ IF o.kind = "return"
            THEN /\ circuit' = o.value
                 /\ pc' = "ec_draw"
                 /\ UNCHANGED <<exc, reply>>
            ELSE /\ Caught(o.exc)
                 /\ UNCHANGED circuit
    /\ UNCHANGED <<flags, request, backend, qasm_code, shots, backend_name,
                   circuit_drawing, quasi, session, lbVars, ccVars>>

\* lines 55-59: the primary rendering and, when it fails, the fallback one
ECDraw ==
    /\ pc = "ec_draw"
    /\ \E primary \in CallOutcomes :
         IF primary.kind = "return"
         THEN /\ calls' = Append(calls, Call("draw", "single_string", primary))
              /\ circuit_drawing' = TextDrawing(circuit)
              /\ pc' = "ec_select"
              /\ UNCHANGED <<exc, reply>>
         ELSE \E o \in CallOutcomes :
                /\ calls' = calls \o <<Call("draw", "single_string", primary),
                                       Call("draw", "str", o)>>
                /\ IF o.kind = "return"
                   THEN /\ circuit_drawing' = TextDrawing(circuit)
                        /\ pc' = "ec_select"
                        /\ UNCHANGED <<exc, reply>>
                   ELSE /\ Caught(o.exc)
                        /\ UNCHANGED circuit_drawing
    /\ UNCHANGED <<flags, request, backend, qasm_code, shots, backend_name,
                   circuit, quasi, session, lbVars, ccVars>>

\* the selection by the prefix alone, without the legacy alias
IsLocalBackendByPrefix(name) == StartsWith(name, "aer_")

\* line 62: the identifier denotes the local-simulator family
IsLocalBackend(name) == StartsWith(name, "aer_") \/ name = "qasm_simulator"

\* the remote capability checks in the other order: runtime, then provider
ECSelectRuntimeFirst ==
    /\ pc = "ec_select"
    /\ IF IsLocalBackend(backend_name)
       THEN IF ~ HAS_AER
            THEN Finish(Returns(ErrorOutcome(
                   "Local simulator not available. Please install qiskit-aer with: pip install qiskit-aer",
                   circuit_drawing, backend_name)))
            ELSE pc' = "ec_get_backend" /\ UNCHANGED reply
       ELSE IF ~ HAS_IBM_RUNTIME
            THEN Finish(Returns(ErrorOutcome(
                   "IBM Quantum Runtime not available. Please install with: pip install qiskit-ibm-runtime",
                   circuit_drawing, backend_name)))
            ELSE IF ~ HAS_IBM_PROVIDER
            THEN Finish(Returns(ErrorOutcome(
                   "IBM Quantum provider not available. Please install with: pip install qiskit-ibm-provider",
                   circuit_drawing, backend_name)))
            ELSE pc' = "ec_service" /\ UNCHANGED reply
    /\ UNCHANGED <<flags, request, backend, ecVars, lbVars, calls, ccVars>>

\* lines 62-71 and 129-145: the path is selected and its capability checked
ECSelect ==
    /\ pc = "ec_select"
    /\ IF IsLocalBackend(backend_name)
       THEN IF ~ HAS_AER
            THEN Finish(Returns(ErrorOutcome(
                   "Local simulator not available. Please install qiskit-aer with: pip install qiskit-aer",
                   circuit_drawing, backend_name)))
            ELSE pc' = "ec_get_backend" /\ UNCHANGED reply
       ELSE IF ~ HAS_IBM_PROVIDER
            THEN Finish(Returns(ErrorOutcome(
                   "IBM Quantum provider not available. Please install with: pip install qiskit-ibm-provider",
                   circuit_drawing, backend_name)))
            ELSE IF ~ HAS_IBM_RUNTIME
            THEN Finish(Returns(ErrorOutcome(
                   "IBM Quantum Runtime not available. Please install with: pip install qiskit-ibm-runtime",
                   circuit_drawing, backend_name)))
            ELSE pc' = "ec_service" /\ UNCHANGED reply
    /\ UNCHANGED <<flags, request, backend, ecVars, lbVars, calls, ccVars>>

\* a resolution that retries against "qasm_simulator" whatever was requested
ECGetBackendAlwaysRetrying ==
    /\ pc = "ec_get_backend"
    /\ \E o \in CallOutcomes :
         /\ calls' = Append(calls, Call("Aer.get_backend", backend_name, o))
         /\ IF o.kind = "return"
            THEN pc' = "ec_transpile" /\ UNCHANGED reply
            ELSE pc' = "ec_fallback" /\ UNCHANGED reply
    /\ UNCHANGED <<flags, request, backend, ecVars, lbVars, ccVars>>

\* lines 74-97: backend = Aer.get_backend(backend_name)
ECGetBackend ==
    /\ pc = "ec_get_backend"
    /\ \E o \in CallOutcomes :
         /\ calls' = Append(calls, Call("Aer.get_backend", backend_name, o))
         /\ IF o.kind = "return"
            THEN pc' = "ec_transpile" /\ UNCHANGED reply
            ELSE IF backend_name # "qasm_simulator"
                 THEN pc' = "ec_fallback" /\ UNCHANGED reply
                 ELSE Finish(Returns(ErrorOutcome(
                        "Requested simulator '" \o backend_name \o "' not available: "
                           \o o.exc.msg \o ". Please check your qiskit-aer installation.",
                        circuit_drawing, backend_name)))
    /\ UNCHANGED <<flags, request, backend, ecVars, lbVars, ccVars>>

\* the retry with backend_name renamed before "qasm_simulator" has resolved
ECFallbackRenamingFirst ==
    /\ pc = "ec_fallback"
    /\ backend_name' = "qasm_simulator (fallback)"
    /\ \E o \in CallOutcomes :
         /\ calls' = Append(calls, Call("Aer.get_backend", "qasm_simulator", o))
         /\ IF o.kind = "return"
            THEN /\ pc' = "ec_transpile"
                 /\ UNCHANGED reply
            ELSE Finish(Returns(ErrorOutcome(
                        "No simulator available: " \o o.exc.msg
                           \o ". Please check your qiskit-aer installation.",
                        circuit_drawing, "qasm_simulator (fallback)")))
    /\ UNCHANGED <<flags, request, backend, qasm_code, shots, circuit,
                   circuit_drawing, exc, quasi, session, lbVars, ccVars>>

\* the retry without the renaming of backend_name
ECFallbackUnmarked ==
    /\ pc = "ec_fallback"
    /\ \E o \in CallOutcomes :
         /\ calls' = Append(calls, Call("Aer.get_backend", "qasm_simulator", o))
         /\ IF o.kind = "return"
            THEN /\ pc' = "ec_transpile"
                 /\ UNCHANGED reply
            ELSE Finish(Returns(ErrorOutcome(
                        "No simulator available: " \o o.exc.msg
                           \o ". Please check your qiskit-aer installation.",
                        circuit_drawing, backend_name)))
    /\ UNCHANGED <<flags, request, backend, ecVars, lbVars, ccVars>>

\* lines 79-89: the one retry, against "qasm_simulator"
ECFallback ==
    /\ pc = "ec_fallback"
    /\ \E o \in CallOutcomes :
         /\ calls' = Append(calls, Call("Aer.get_backend", "qasm_simulator", o))
         /\ IF o.kind = "return"
            THEN /\ backend_name' = "qasm_simulator (fallback)"
                 /\ pc' = "ec_transpile"
                 /\ UNCHANGED reply
            ELSE /\ Finish(Returns(ErrorOutcome(
                        "No simulator available: " \o o.exc.msg
                           \o ". Please check your qiskit-aer installation.",
                        circuit_drawing, backend_name)))
                 /\ UNCHANGED backend_name
    /\ UNCHANGED <<flags, request, backend, qasm_code, shots, circuit,
                   circuit_drawing, exc, quasi, session, lbVars, ccVars>>

\* one step of the local run that returns or raises to the outer handler
LocalStep(here, op, next) ==
    /\ pc = here
    /\ \E o \in CallOutcomes :
         /\ calls' = Append(calls, Call(op, "", o))
         /\ IF o.kind = "return"
            THEN pc' = next /\ UNCHANGED <<exc, reply>>
            ELSE Caught(o.exc)
    /\ UNCHANGED <<flags, request, backend, qasm_code, shots, backend_name,
                   circuit, circuit_drawing, quasi, session, lbVars, ccVars>>

\* line 103: transpiled_circuit = transpile(circuit, backend)
ECTranspile == LocalStep("ec_transpile", "transpile", "ec_run")

\* line 106: job = backend.run(transpiled_circuit, shots=shots)
ECRun == LocalStep("ec_run", "backend.run", "ec_result")

\* line 109: result = job.result()
ECResult == LocalStep("ec_result", "job.result", "ec_get_counts")

\* lines 112-123: the elapsed time, the tally and the success outcome
ECGetCounts ==
    /\ pc = "ec_get_counts"
    /\ \E elapsed \in 0..MaxElapsed :
         \E o \in {Returns(t) : t \in LocalTallies(shots)} \cup {Raises(e) : e \in Raised} :
           /\ calls' = Append(calls, Call("result.get_counts", "", o))
           /\ IF o.kind = "return"
              THEN /\ Finish(Returns(SuccessOutcome(o.value, circuit_drawing,
                                                    backend_name, elapsed)))
                   /\ UNCHANGED exc
              ELSE Caught(o.exc)
    /\ UNCHANGED <<flags, request, backend, qasm_code, shots, backend_name,
                   circuit, circuit_drawing, quasi, session, lbVars, ccVars>>

\* the inner except of the remote path (lines 183-189)
RuntimeError(e) ==
    ErrorOutcome("Error using IBM Quantum Runtime: " \o e.msg
                    \o ". Make sure you have the right access permissions.",
                 circuit_drawing, backend_name)

\* line 150: service = QiskitRuntimeService()
ECService ==
    /\ pc = "ec_service"
    /\ \E o \in CallOutcomes :
         /\ calls' = Append(calls, Call("QiskitRuntimeService", "", o))
         /\ IF o.kind = "return"
            THEN pc' = "ec_session" /\ UNCHANGED reply
            ELSE Finish(Returns(RuntimeError(o.exc)))
    /\ UNCHANGED <<flags, request, backend, ecVars, lbVars, ccVars>>

\* line 156: with Session(service=service, backend=backend_name):
ECSession ==
    /\ pc = "ec_session"
    /\ \E o \in CallOutcomes :
         /\ calls' = Append(calls, Call("Session", backend_name, o))
         /\ IF o.kind = "return"
            THEN /\ session' = "open"
                 /\ pc' = "ec_sampler"
                 /\ UNCHANGED reply
            ELSE /\ Finish(Returns(RuntimeError(o.exc)))
                 /\ UNCHANGED session
    /\ UNCHANGED <<flags, request, backend, qasm_code, shots, backend_name,
                   circuit, circuit_drawing, exc, quasi, lbVars, ccVars>>

\* a session that is never released
SessionLeft == session

\* leaving the with block, normally or by an exception, runs Session.__exit__
SessionExit == IF session = "open" THEN "closed" ELSE session

\* one statement inside the with block: it returns, or it raises, the session
\* is left and the inner except builds the error outcome
SessionStep(here, op, next) ==
    /\ pc = here
    /\ \E o \in CallOutcomes :
         IF o.kind = "return"
         THEN /\ calls' = Append(calls, Call(op, "", o))
              /\ pc' = next
              /\ UNCHANGED <<session, reply>>
         ELSE /\ calls' = calls \o <<Call(op, "", o), Enter("Session.__exit__", "")>>
              /\ session' = SessionExit
              /\ Finish(Returns(RuntimeError(o.exc)))
    /\ UNCHANGED <<flags, request, backend, qasm_code, shots, backend_name,
                   circuit, circuit_drawing, exc, quasi, lbVars, ccVars>>

\* line 157: sampler = Sampler()
ECSampler == SessionStep("ec_sampler", "Sampler", "ec_submit")

\* line 158: job = sampler.run(circuits=circuit, shots=shots)
ECSubmit == SessionStep("ec_submit", "sampler.run", "ec_job_result")

\* line 159: result = job.result(), the last statement of the with block
ECJobResult ==
    /\ pc = "ec_job_result"
    /\ session' = SessionExit
    /\ \E o \in {Returns(d) : d \in SamplerDists} \cup {Raises(e) : e \in Raised} :
         /\ calls' = calls \o <<Call("job.result", "", o), Enter("Session.__exit__", "")>>
         /\ IF o.kind = "return"
            THEN /\ quasi' = o.value
                 /\ pc' = "ec_convert"
                 /\ UNCHANGED reply
            ELSE /\ Finish(Returns(RuntimeError(o.exc)))
                 /\ UNCHANGED quasi
    /\ UNCHANGED <<flags, request, backend, qasm_code, shots, backend_name,
                   circuit, circuit_drawing, exc, lbVars, ccVars>>

\* lines 162-181: the elapsed time, the conversion and the success outcome;
\* reading result.quasi_dists[0] can raise into the inner except
ECConvert ==
    /\ pc = "ec_convert"
    /\ \E elapsed \in 0..MaxElapsed :
         \E o \in CallOutcomes :
           /\ calls' = Append(calls, Call("result.quasi_dists", "", o))
           /\ IF o.kind = "return"
              THEN Finish(Returns(SuccessOutcome(
                       FormatCounts(quasi, shots, circuit.num_clbits),
                       circuit_drawing, backend_name, elapsed)))
              ELSE Finish(Returns(RuntimeError(o.exc)))
    /\ UNCHANGED <<flags, request, backend, ecVars, lbVars, ccVars>>

\* the message of the outer except clauses: line 193 for a QiskitError,
\* line 208 for any other exception
HandlerMessage(e) ==
    IF e.type = "QiskitError" THEN "Qiskit error: " \o e.msg
    ELSE "Error executing circuit: " \o e.msg

\* lines 194-206 and 209-221: the circuit is parsed again for its diagram
ECHandlerParse ==
    /\ pc = "ec_handler_parse"
    /\ \E o \in ParseOutcomes(qasm_code) :
         /\ calls' = Append(calls, Call("from_qasm_str", qasm_code, o))
         /\ IF o.kind = "return"
            THEN /\ circuit' = o.value
                 /\ pc' = "ec_handler_draw"
                 /\ UNCHANGED <<circuit_drawing, reply>>
            ELSE /\ circuit_drawing' = CouldNotDraw
                 /\ Finish(Returns(ErrorOutcome(HandlerMessage(exc), CouldNotDraw,
                                                backend_name)))
                 /\ UNCHANGED circuit
    /\ UNCHANGED <<flags, request, backend, qasm_code, shots, backend_name,
                   exc, quasi, session, lbVars, ccVars>>

\* lines 197 and 212: circuit_drawing = str(circuit.draw(output='text'))
ECHandlerDraw ==
    /\ pc = "ec_handler_draw"
    /\ \E o \in CallOutcomes :
         /\ calls' = Append(calls, Call("draw", "str", o))
         /\ LET drawing == IF o.kind = "return" THEN TextDrawing(circuit) ELSE CouldNotDraw
            IN  /\ circuit_drawing' = drawing
                /\ Finish(Returns(ErrorOutcome(HandlerMessage(exc), drawing, backend_name)))
    /\ UNCHANGED <<flags, request, backend, qasm_code, shots, backend_name,
                   circuit, exc, quasi, session, lbVars, ccVars>>

----------------------------------------------------------------------------
(* Backend Enumerator: circuits/list_backends.py and tools/list_backends.py *)

\* the names Aer.backends() can report
AerNames == {<<>>, <<"simulator">>, <<"simulator", "statevector_simulator">>}

\* the names provider.backends() can report
ProviderNames == {<<>>, <<"ibm_brisbane">>, <<"ibm_kyoto", "ibm_brisbane">>}

\* [f"aer_{backend}" for backend in local_backends]
AerPrefixed(names) == [i \in 1..Len(names) |-> "aer_" \o names[i]]

\* lines 32-43 (tools/: 21-31): the local step
LBLocal ==
    /\ pc = "lb_local"
    /\ active_account' = IF Generation = "circuits" THEN "No IBMQ account configured"
                         ELSE "No IBM account configured"
    /\ IF HAS_AER
       THEN \E o \in {Returns(n) : n \in AerNames} \cup {Raises(e) : e \in Raised} :
              /\ calls' = Append(calls, Call("Aer.backends", "", o))
              /\ backends' =
                    IF o.kind = "return" THEN backends \o AerPrefixed(o.value)
                    ELSE Append(backends,
                                (IF Generation = "circuits"
                                 THEN "Error getting Aer backends: " ELSE "Aer error: ")
                                   \o o.exc.msg)
       ELSE /\ backends' = Append(backends,
                                  IF Generation = "circuits"
                                  THEN "No Aer simulators available - install with: pip install qiskit-aer"
                                  ELSE "No simulators available")
            /\ UNCHANGED calls
    /\ pc' = "lb_provider"
    /\ UNCHANGED <<flags, request, backend, ecVars, reply, ccVars>>

\* the catalog list_available_backends returns
Catalog(names, account) == [backends |-> names, active_account |-> account]

\* the except of the remote step (lines 53-55; tools/: 40-41)
AccountError(e) ==
    (IF Generation = "circuits" THEN "IBM Quantum error: " ELSE "IBM error: ") \o e.msg

\* lines 46-49 and 56-57 (tools/: 33-35): the capability check and IBMProvider()
LBProvider ==
    /\ pc = "lb_provider"
    /\ IF HAS_IBM_PROVIDER
       THEN \E o \in CallOutcomes :
              /\ calls' = Append(calls, Call("IBMProvider", "", o))
              /\ IF o.kind = "return"
                 THEN /\ pc' = "lb_backends"
                      /\ UNCHANGED <<active_account, reply>>
                 ELSE /\ active_account' = AccountError(o.exc)
                      /\ Finish(Returns(Catalog(backends, AccountError(o.exc))))
       ELSE LET account == IF Generation = "circuits"
                           THEN active_account \o " (qiskit_ibm_provider not installed)"
                           ELSE active_account
            IN  /\ active_account' = account
                /\ Finish(Returns(Catalog(backends, account)))
                /\ UNCHANGED calls
    /\ UNCHANGED <<flags, request, backend, ecVars, backends, ccVars>>

\* the remote enumeration outside any try: its exception leaves the function
LBBackendsUncaught ==
    /\ pc = "lb_backends"
    /\ \E o \in {Returns(n) : n \in ProviderNames} \cup {Raises(e) : e \in Raised} :
         /\ calls' = Append(calls, Call("provider.backends", "", o))
         /\ IF o.kind = "return"
            THEN /\ backends' = backends \o o.value
                 /\ pc' = "lb_account"
                 /\ UNCHANGED <<active_account, reply>>
            ELSE /\ Finish(o)
                 /\ UNCHANGED <<backends, active_account>>
    /\ UNCHANGED <<flags, request, backend, ecVars, ccVars>>

\* the remote names put in front of the entries already collected
LBBackendsPrepending ==
    /\ pc = "lb_backends"
    /\ \E o \in {Returns(n) : n \in ProviderNames} \cup {Raises(e) : e \in Raised} :
         /\ calls' = Append(calls, Call("provider.backends", "", o))
         /\ IF o.kind = "return"
            THEN /\ backends' = o.value \o backends
                 /\ pc' = "lb_account"
                 /\ UNCHANGED <<active_account, reply>>
            ELSE /\ active_account' = AccountError(o.exc)
                 /\ Finish(Returns(Catalog(backends, AccountError(o.exc))))
                 /\ UNCHANGED backends
    /\ UNCHANGED <<flags, request, backend, ecVars, ccVars>>

\* lines 50-51 (tools/: 36-37): the remote names are enumerated and appended
LBBackends ==
    /\ pc = "lb_backends"
    /\ \E o \in {Returns(n) : n \in ProviderNames} \cup {Raises(e) : e \in Raised} :
         /\ calls' = Append(calls, Call("provider.backends", "", o))
         /\ IF o.kind = "return"
            THEN /\ backends' = backends \o o.value
                 /\ pc' = "lb_account"
                 /\ UNCHANGED <<active_account, reply>>
            ELSE /\ active_account' = AccountError(o.exc)
                 /\ Finish(Returns(Catalog(backends, AccountError(o.exc))))
                 /\ UNCHANGED backends
    /\ UNCHANGED <<flags, request, backend, ecVars, ccVars>>

\* str() of the mapping provider.active_account() returns
AccountText == "{'channel': 'ibm_quantum'}"

\* line 52 (tools/: 38): the account-status string
LBAccount ==
    /\ pc = "lb_account"
    /\ \E o \in CallOutcomes :
         /\ calls' = Append(calls, Call("provider.active_account", "", o))
         /\ LET account == IF o.kind = "return"
                           THEN (IF Generation = "circuits" THEN "IBM Quantum account: "
                                 ELSE "IBM account: ") \o AccountText
                           ELSE AccountError(o.exc)
            IN  /\ active_account' = account
                /\ Finish(Returns(Catalog(backends, account)))
    /\ UNCHANGED <<flags, request, backend, ecVars, backends, ccVars>>

----------------------------------------------------------------------------
(* Circuit Compiler as a delegate: create_custom_circuit and the rendering *)

\* create_custom_circuit(instructions): custom_circuit.py 24-53, tools/ 6-26
CCParse ==
    /\ pc = "cc_parse"
    /\ LET text == NormalizeHeader(Get(parameters, "instructions", ""))
       IN  \E parsed \in ParseOutcomes(text) :
             LET o == CompileOutcome(Generation, parsed)
             IN  /\ calls' = Append(calls, Call("from_qasm_str", text, parsed))
                 /\ IF o.kind = "return"
                    THEN /\ circuit' = o.value
                         /\ IF surface = "direct"
                            THEN Finish(o)
                            ELSE pc' = "cc_draw" /\ UNCHANGED reply
                    ELSE /\ Finish(o)
                         /\ UNCHANGED circuit
    /\ UNCHANGED <<flags, request, backend, qasm_code, shots, backend_name,
                   circuit_drawing, exc, quasi, session, lbVars, ccVars>>

\* mcp.py 69-76, main.py 68-74: the diagram and the four-field mapping
CCDraw ==
    /\ pc = "cc_draw"
    /\ \E o \in CallOutcomes :
         /\ calls' = Append(calls, Call("draw", "str", o))
         /\ IF o.kind = "return"
            THEN Finish(Returns([circuit_representation |-> TextDrawing(circuit),
                                 circuit_drawing |-> TextDrawing(circuit),
                                 num_qubits |-> circuit.num_qubits,
                                 num_clbits |-> circuit.num_clbits]))
            ELSE Finish(o)
    /\ UNCHANGED <<flags, request, backend, ecVars, lbVars, ccVars>>

----------------------------------------------------------------------------
(* The program *)

Next ==
    \/ Receive \/ Complete
    \/ RouteListBackends \/ RouteBell \/ RouteCustom \/ RouteExecute \/ RouteUnknown
    \/ ECParse \/ ECDraw \/ ECSelect
    \/ ECGetBackend \/ ECFallback \/ ECTranspile \/ ECRun \/ ECResult \/ ECGetCounts
    \/ ECService \/ ECSession \/ ECSampler \/ ECSubmit \/ ECJobResult \/ ECConvert
    \/ ECHandlerParse \/ ECHandlerDraw
    \/ LBLocal \/ LBProvider \/ LBBackends \/ LBAccount
    \/ CCParse \/ CCDraw

Spec == Init /\ [][Next]_vars

----------------------------------------------------------------------------
(* The compiler run on several inputs against one fixed parser *)

\* the sources the compiler is run on: optional leading whitespace, an
\* optional declaration (or something close to one), a body
CompileSources ==
    {ws \o head \o body :
        ws \in {"", " \n"},
        head \in {"", "OPENQASM 2.0;\n", "openqasm 2.0;\n", "OPENQAS"},
        body \in {"", "h q[0];"}}

\* create_custom_circuit(input_code) when from_qasm_str behaves as parse: the
\* text handed to the parser and what the caller gets
CreateCustomCircuit(gen, input_code, parse) ==
    LET text == NormalizeHeader(input_code)
    IN  [handed |-> text, outcome |-> CompileOutcome(gen, parse[text])]

\* the texts that reach the parser in the runs below
ParserInputs(src) ==
    {NormalizeHeader(src), NormalizeHeader(CanonicalHeader \o src)}

InitCompile ==
    /\ HAS_AER = TRUE /\ HAS_IBM_PROVIDER = TRUE /\ HAS_IBM_RUNTIME = TRUE
    /\ pc = "compile"
    /\ surface \in {"tool", "direct"}
    /\ function_name = "create_custom_circuit"
    /\ \E src \in CompileSources :
         /\ parameters = ("instructions" :> src)
         /\ \E f \in [ParserInputs(src) -> {NoException} \cup ParseRaised] :
              parser = [t \in ParserInputs(src) |->
                           IF f[t] = NoException THEN Returns(Circuit(t, 1))
                           ELSE Raises(f[t])]
    /\ compiled = <<>>
    /\ suspended = <<>>
    /\ backend = Unbound
    /\ qasm_code = Unbound /\ shots = 0 /\ backend_name = Unbound
    /\ circuit = NoCircuit /\ circuit_drawing = Unbound
    /\ exc = NoException /\ quasi = <<>> /\ session = "none"
    /\ backends = <<>> /\ active_account = Unbound
    /\ calls = <<>>
    /\ result = NoResult
    /\ response = NoResponse

\* one run of the compiler, recorded under a label
CompileRun(label, input_code) ==
    /\ pc = "compile"
    /\ label \notin DOMAIN compiled
    /\ compiled' = compiled @@ (label :> CreateCustomCircuit(Generation, input_code, parser))
    /\ UNCHANGED <<flags, pc, request, backend, ecVars, lbVars, calls, reply, parser,
                   suspended>>

\* the source as the caller wrote it
CompileBare == CompileRun("bare", parameters["instructions"])

\* the same source with the canonical header prepended by hand
CompileHeaded == CompileRun("headed", CanonicalHeader \o parameters["instructions"])

\* the text the first run handed to the parser, compiled once more
CompileAgain ==
    /\ "bare" \in DOMAIN compiled
    /\ CompileRun("again", compiled["bare"].handed)

NextCompile == CompileBare \/ CompileHeaded \/ CompileAgain

SpecCompile == InitCompile /\ [][NextCompile]_vars

----------------------------------------------------------------------------
(* The conversion step of the remote path on every sampler result *)

\* the calls execute_circuit has made when it reaches the conversion
CallsBeforeConvert(code, name) ==
    <<Enter("execute_circuit", code),
      Call("from_qasm_str", code, Returns(None)),
      Call("draw", "single_string", Returns(None)),
      Call("QiskitRuntimeService", "", Returns(None)),
      Call("Session", name, Returns(None)),
      Call("Sampler", "", Returns(None)),
      Call("sampler.run", "", Returns(None)),
      Call("job.result", "", Returns(None)),
      Enter("Session.__exit__", "")>>

\* execute_circuit is about to convert what the sampler reported: any
\* quasi-distribution, any shot count, any classical-bit count
InitConvert ==
    /\ HAS_AER \in BOOLEAN /\ HAS_IBM_PROVIDER = TRUE /\ HAS_IBM_RUNTIME = TRUE
    /\ pc = "ec_convert"
    /\ surface = "tool" /\ function_name = "execute_circuit"
    /\ \E code \in SourceTexts, n \in (1..MaxShots) \cup {1024}, w \in 0..MaxClbits :
         /\ parameters = ("qasm_code" :> code) @@ ("shots" :> n) @@ ("backend" :> "ibm_brisbane")
         /\ qasm_code = code
         /\ shots = n
         /\ circuit = Circuit(code, w)
         /\ circuit_drawing = TextDrawing(Circuit(code, w))
         /\ calls = CallsBeforeConvert(code, "ibm_brisbane")
    /\ backend_name = "ibm_brisbane"
    /\ quasi \in QuasiDists
    /\ session = "closed"
    /\ backend = Unbound
    /\ exc = NoException
    /\ backends = <<>> /\ active_account = Unbound
    /\ result = NoResult
    /\ response = NoResponse
    /\ parser = <<>> /\ compiled = <<>>
    /\ suspended = <<>>

SpecConvert == InitConvert /\ [][ECConvert]_vars

----------------------------------------------------------------------------
(* Two calls in flight, their steps interleaved *)

\* Everything call_function and execute_circuit assign is a local variable or
\* an argument of the call (mcp.py 36-37, 83-88; execute_circuit.py 37, 52-59,
\* 81, 159-173, 193-199): each call in flight has its own copy. The capability
\* flags are module-level names (execute_circuit.py 10-35), one copy for all.
Frame ==
    [pc |-> pc, surface |-> surface, function_name |-> function_name,
     parameters |-> parameters, backend |-> backend, qasm_code |-> qasm_code,
     shots |-> shots, backend_name |-> backend_name, circuit |-> circuit,
     circuit_drawing |-> circuit_drawing, exc |-> exc, quasi |-> quasi,
     session |-> session, backends |-> backends,
     active_account |-> active_account, calls |-> calls, result |-> result,
     response |-> response]

\* the locals of a call that has parsed and rendered its circuit (lines 52-59)
\* and is about to select its path
Selecting(s, name, p) ==
    LET code == p["qasm_code"] IN
    [pc |-> "ec_select", surface |-> s, function_name |-> name,
     parameters |-> p,
     backend |-> IF s = "http" THEN p["backend"] ELSE Unbound,
     qasm_code |-> code, shots |-> p["shots"], backend_name |-> p["backend"],
     circuit |-> Circuit(code, 1),
     circuit_drawing |-> TextDrawing(Circuit(code, 1)),
     exc |-> NoException, quasi |-> <<>>,
     session |-> "none", backends |-> <<>>, active_account |-> Unbound,
     calls |-> <<Enter("execute_circuit", code),
                 Call("from_qasm_str", code, Returns(None)),
                 Call("draw", "single_string", Returns(None))>>,
     result |-> NoResult, response |-> NoResponse]

\* the two requests in flight: one names a local simulator the SDK may not
\* know, so that its resolution can fall back; the other names the legacy
\* alias or a remote device, with another source and number of shots
FirstRequests ==
    {("qasm_code" :> "OPENQASM 2.0;\nqreg q[1];") @@ ("shots" :> 1)
        @@ ("backend" :> "aer_simulator")}
SecondRequests ==
    {("qasm_code" :> "h q[0];") @@ ("shots" :> MaxShots) @@ ("backend" :> b) :
        b \in {"qasm_simulator", "ibm_brisbane"}}

InitConcurrent ==
    /\ FlagsInit
    /\ \E p \in FirstRequests :
         LET f == Selecting("tool", "execute_circuit", p)
         IN  /\ pc = f.pc
             /\ surface = f.surface /\ function_name = f.function_name
             /\ parameters = f.parameters
             /\ backend = f.backend
             /\ qasm_code = f.qasm_code /\ shots = f.shots
             /\ backend_name = f.backend_name
             /\ circuit = f.circuit /\ circuit_drawing = f.circuit_drawing
             /\ exc = f.exc /\ quasi = f.quasi /\ session = f.session
             /\ backends = f.backends /\ active_account = f.active_account
             /\ calls = f.calls
             /\ result = f.result
             /\ response = f.response
    /\ parser = <<>> /\ compiled = <<>>
    /\ suspended \in {Selecting("http", "Execute quantum circuit", p) :
                         p \in SecondRequests}

\* a preemption that leaves backend_name where it is, as a module-level name
\* shared by the calls in flight would be
SwitchSharingBackendName ==
    /\ suspended # <<>>
    /\ suspended.pc # "done"
    /\ suspended' = Frame
    /\ pc' = suspended.pc
    /\ surface' = suspended.surface
    /\ function_name' = suspended.function_name
    /\ parameters' = suspended.parameters
    /\ backend' = suspended.backend
    /\ qasm_code' = suspended.qasm_code
    /\ shots' = suspended.shots
    /\ circuit' = suspended.circuit
    /\ circuit_drawing' = suspended.circuit_drawing
    /\ exc' = suspended.exc
    /\ quasi' = suspended.quasi
    /\ session' = suspended.session
    /\ backends' = suspended.backends
    /\ active_account' = suspended.active_account
    /\ calls' = suspended.calls
    /\ result' = suspended.result
    /\ response' = suspended.response
    /\ UNCHANGED <<flags, backend_name, parser, compiled>>

\* The call taking steps is preempted and the other call in flight goes on
\* from where it was, with its own locals; a call that has been served takes
\* no more steps.
Switch ==
    /\ suspended # <<>>
    /\ suspended.pc # "done"
    /\ suspended' = Frame
    /\ pc' = suspended.pc
    /\ surface' = suspended.surface
    /\ function_name' = suspended.function_name
    /\ parameters' = suspended.parameters
    /\ backend' = suspended.backend
    /\ qasm_code' = suspended.qasm_code
    /\ shots' = suspended.shots
    /\ backend_name' = suspended.backend_name
    /\ circuit' = suspended.circuit
    /\ circuit_drawing' = suspended.circuit_drawing
    /\ exc' = suspended.exc
    /\ quasi' = suspended.quasi
    /\ session' = suspended.session
    /\ backends' = suspended.backends
    /\ active_account' = suspended.active_account
    /\ calls' = suspended.calls
    /\ result' = suspended.result
    /\ response' = suspended.response
    /\ UNCHANGED <<flags, parser, compiled>>

NextConcurrent ==
    \/ Switch
    \/ ECSelect
    \/ ECGetBackend \/ ECFallback \/ ECTranspile \/ ECRun \/ ECResult \/ ECGetCounts
    \/ ECService \/ ECSession \/ ECSampler \/ ECSubmit \/ ECJobResult \/ ECConvert
    \/ ECHandlerParse \/ ECHandlerDraw

SpecConcurrent == InitConcurrent /\ [][NextConcurrent]_vars

----------------------------------------------------------------------------
(* Properties *)

\* a call has been served
Done == pc = "done"

\* execute_circuit was entered and the call has been served
ExecuteDone == Done /\ IsExecute /\ calls # <<>>

\* the call is answered normally: HTTP 200, or a tool result
NormalResponse ==
    \/ response.kind = "http" /\ response.status = 200
    \/ response.kind = "tool_result"

\* the log entries of the calls that raised
RaisedCalls == {i \in 1..Len(calls) : calls[i].error # ""}

\* C1: 'Execute quantum circuit' without qasm_code (absent or empty) ends in
\* a normal HTTP 200 response whose body has status "error" and a message
\* naming qasm_code, never in a 400 or an unhandled exception.
C1_MissingQasmCodeIsErrorStatus ==
    (/\ Done
     /\ surface = "http"
     /\ function_name = "Execute quantum circuit"
     /\ Get(parameters, "qasm_code", "") = "")
    => /\ response.kind = "http"
       /\ response.status = 200
       /\ response.body.status = "error"
       /\ Contains(response.body.message, "qasm_code")

\* C2: a name that is none of call_function's four identifiers ends in a 400
\* whose message contains the name; no delegate is ever invoked for it.
C2_UnknownNameIsRoutingError ==
    (surface = "http" /\ pc # "idle" /\ function_name \notin HttpFunctions)
    => /\ calls = <<>>
       /\ result = NoResult
       /\ pc \in {"dispatch", "done"}
       /\ Done => /\ response.kind = "http"
                  /\ response.status = 400
                  /\ Contains(response.detail, function_name)

C2_Witness ==
    /\ Done
    /\ surface = "http"
    /\ function_name = "frobnicate"
    /\ response.kind = "http" /\ response.status = 400

\* a failure the code retries through a documented fallback: the primary
\* rendering, and the resolution of a requested name other than the alias
HasFallback(call) ==
    \/ call.op = "draw" /\ call.arg = "single_string"
    \/ call.op = "Aer.get_backend" /\ call.arg # "qasm_simulator"

\* C3 as stated: execute_circuit never raises, and a failure at any stage
\* (the primary rendering and the backend resolution included) makes it
\* return a mapping with status "error".
C3_AnyFailureIsErrorStatus ==
    (ExecuteDone /\ RaisedCalls # {})
    => /\ result.kind = "return"
       /\ result.value.status = "error"

\* C3 amended: execute_circuit never raises: whatever the source, shots and
\* backend, and whichever SDK call fails, it returns a mapping whose status is
\* "success" or "error"; the status is "error" for every failure except the
\* two the code recovers from (a failed primary rendering, retried by the
\* fallback rendering, and a failed resolution of a name other than
\* qasm_simulator, retried against qasm_simulator), after which execution
\* goes on and may succeed; so the HTTP route with a non-empty qasm_code
\* always answers normally.
C3_ExecuteNeverRaises ==
    ExecuteDone
    => /\ result.kind = "return"
       /\ NormalResponse
       /\ response.body = result.value
       /\ result.value.status \in {"success", "error"}
       /\ (\E i \in RaisedCalls : ~ HasFallback(calls[i]))
             => result.value.status = "error"
       /\ (surface = "http" /\ Get(parameters, "qasm_code", "") # "")
             => response.kind = "http" /\ response.status = 200

\* transpile fails and so does the handler's re-parse; an error is returned
C3_Witness ==
    /\ ExecuteDone
    /\ surface = "http"
    /\ \E i \in RaisedCalls : calls[i].op = "transpile"
    /\ \E i \in RaisedCalls : calls[i].op = "from_qasm_str"
    /\ result.kind = "return"
    /\ result.value.status = "error"
    /\ response.kind = "http" /\ response.status = 200

\* C4: every outcome of execute_circuit has status "success" or "error";
\* success carries counts and no message; error carries a message and
\* neither counts nor execution_time.
C4_OutcomeInvariant ==
    (ExecuteDone /\ result.kind = "return")
    => LET o == result.value
       IN  /\ o.status \in {"success", "error"}
           /\ o.status = "success"
                 => "counts" \in DOMAIN o /\ "message" \notin DOMAIN o
           /\ o.status = "error"
                 => /\ "message" \in DOMAIN o
                    /\ o.message # ""
                    /\ "counts" \notin DOMAIN o
                    /\ "execution_time" \notin DOMAIN o

C4_Witness ==
    /\ ExecuteDone
    /\ result.kind = "return"
    /\ result.value.status = "error"
    /\ \E i \in RaisedCalls : calls[i].op = "result.get_counts"

\* C5: every outcome of execute_circuit carries a non-empty circuit_drawing:
\* the rendering of the circuit parsed in this call, or the sentinel "Could
\* not generate circuit drawing", also when every rendering attempt failed.
C5_DrawingAlwaysPresent ==
    (ExecuteDone /\ result.kind = "return")
    => LET o == result.value
       IN  /\ "circuit_drawing" \in DOMAIN o
           /\ o.circuit_drawing # ""
           /\ o.circuit_drawing # Unbound
           /\ \/ o.circuit_drawing = CouldNotDraw
              \/ circuit # NoCircuit /\ o.circuit_drawing = TextDrawing(circuit)

\* the primary rendering, the fallback rendering and the re-attempted
\* rendering have all failed
C5_Witness ==
    /\ ExecuteDone
    /\ Len(calls) = 6
    /\ calls[3].op = "draw" /\ calls[3].error # ""
    /\ calls[4].op = "draw" /\ calls[4].error # ""
    /\ calls[6].op = "draw" /\ calls[6].error # ""
    /\ result.value.circuit_drawing = CouldNotDraw

\* C6: a session opened on the remote path is closed before execute_circuit
\* returns, on every exit path; it is open only inside the with block.
C6_SessionClosedOnReturn ==
    /\ Done => session # "open"
    /\ session = "open" => pc \in {"ec_sampler", "ec_submit", "ec_job_result"}
    /\ (Done /\ \E i \in 1..Len(calls) : calls[i].op = "Session" /\ calls[i].error = "")
          => /\ session = "closed"
             /\ \E i \in 1..Len(calls) : calls[i].op = "Session.__exit__"

C6_Witness ==
    /\ ExecuteDone
    /\ session = "closed"
    /\ \E i \in RaisedCalls : calls[i].op = "sampler.run"
    /\ result.value.status = "error"

\* C7: list_available_backends never raises: for every value of the
\* capability flags and every failing step it returns a sequence of strings
\* under backends and a non-empty string under active_account, and the text
\* of each failure is in the result.
C7_ListBackendsNeverRaises ==
    (Done /\ IsList)
    => /\ result.kind = "return"
       /\ NormalResponse
       /\ response.body = result.value
       /\ LET c == result.value
          IN  /\ DOMAIN c = {"backends", "active_account"}
              /\ DOMAIN c.backends = 1..Len(c.backends)
              /\ \A j \in 1..Len(c.backends) : c.backends[j] \in STRING
              /\ c.active_account \in STRING
              /\ c.active_account # ""
              /\ c.active_account # Unbound
              /\ ~ HAS_AER => Len(c.backends) >= 1
              /\ \A i \in RaisedCalls :
                    IF calls[i].op = "Aer.backends"
                    THEN \E j \in 1..Len(c.backends) :
                            Contains(c.backends[j], calls[i].error)
                    ELSE Contains(c.active_account, calls[i].error)

C7_Witness ==
    /\ Done /\ IsList
    /\ surface = "direct"
    /\ \E i \in RaisedCalls : calls[i].op = "Aer.backends"
    /\ \E i \in RaisedCalls : calls[i].op = "provider.active_account"
    /\ result.kind = "return"

\* the source begins, after leading whitespace, with the declaration token
BeginsWithToken(src) == StartsWith(LStrip(src), "OPENQASM")

\* C8: a source that does not begin (after leading whitespace) with OPENQASM
\* compiles to the same result (circuit or failure) as the same text with the
\* canonical header prepended; a source that begins with the token reaches
\* the parser unmodified, and normalizing twice changes nothing.
C8_HeaderNormalization ==
    LET src == parameters["instructions"]
    IN  pc = "compile"
        => /\ ({"bare", "headed"} \subseteq DOMAIN compiled /\ ~ BeginsWithToken(src))
                 => /\ compiled["bare"].outcome = compiled["headed"].outcome
                    /\ compiled["bare"].handed = CanonicalHeader \o src
           /\ ("bare" \in DOMAIN compiled /\ BeginsWithToken(src))
                 => compiled["bare"].handed = src
           /\ "again" \in DOMAIN compiled
                 => /\ compiled["again"].handed = compiled["bare"].handed
                    /\ compiled["again"].outcome = compiled["bare"].outcome

C8_Witness ==
    /\ pc = "compile"
    /\ {"bare", "headed", "again"} \subseteq DOMAIN compiled
    /\ ~ BeginsWithToken(parameters["instructions"])
    /\ parameters["instructions"] # ""
    /\ compiled["bare"].outcome.kind = "raise"
    /\ compiled["headed"].outcome = compiled["bare"].outcome

\* the sampler reported a probability distribution: no negative entry, and
\* the entries (numerators over ProbDen) sum to one
IsProbability(d) ==
    /\ \A k \in DOMAIN d : d[k] >= 0
    /\ SumOver(d, DOMAIN d) = ProbDen

\* a success outcome of the remote path for a probability distribution
ConvertedProbability ==
    /\ ExecuteDone
    /\ quasi # <<>>
    /\ IsProbability(quasi)
    /\ result.kind = "return"
    /\ result.value.status = "success"

\* C9 as stated: on the remote path the converted counts sum to at most the
\* requested shot count, for every shot count and probability distribution.
C9_SumAtMostShots ==
    ConvertedProbability => TotalCount(result.value.counts) <= shots

\* C9 amended: each emitted count is within one half of probability x shots,
\* so the converted counts sum to at most the shot count plus half the number
\* of emitted entries (and the sum can exceed the shot count).
C9_SumAtMostShotsPlusHalfPerEntry ==
    ConvertedProbability
    => 2 * TotalCount(result.value.counts)
          <= 2 * shots + Cardinality(DOMAIN result.value.counts)

C9_Witness ==
    /\ ConvertedProbability
    /\ TotalCount(result.value.counts) > shots

\* the three operations whose exceptions call_function escalates
EscalatingFunctions ==
    {"List available backends", "Create a bell quantum circuit",
     "Create a custom quantum circuit"}

\* C10: for the three operations other than execute-circuit, an exception
\* raised by the delegate (or by rendering the custom circuit's diagram)
\* becomes a 400 whose detail carries the exception text, never a normal
\* response.
C10_DelegateExceptionIs400 ==
    (Done /\ surface = "http" /\ function_name \in EscalatingFunctions)
    => /\ result.kind = "raise"
             => /\ response.kind = "http"
                /\ response.status = 400
                /\ Contains(response.detail, result.exc.msg)
       /\ (function_name # "List available backends" /\ RaisedCalls # {})
             => result.kind = "raise"
       /\ NormalResponse => result.kind = "return"

C10_Witness ==
    /\ Done /\ surface = "http"
    /\ function_name = "Create a custom quantum circuit"
    /\ \E i \in RaisedCalls : calls[i].op = "draw"
    /\ response.kind = "http" /\ response.status = 400

\* the required parameter of the HTTP function is absent or empty
RequiredParameterMissing ==
    /\ surface = "http"
    /\ \/ /\ function_name = "Create a custom quantum circuit"
          /\ Get(parameters, "instructions", "") = ""
       \/ /\ function_name = "Execute quantum circuit"
          /\ Get(parameters, "qasm_code", "") = ""

\* C11: in call_function, when instructions (custom circuit) or qasm_code
\* (execute) is absent or empty, the input error is raised before any
\* delegate is invoked: create_custom_circuit, respectively execute_circuit,
\* is never called in that request.
C11_InputErrorBeforeDelegate ==
    (RequiredParameterMissing /\ pc # "idle")
    => /\ calls = <<>>
       /\ pc \in {"dispatch", "done"}
       /\ Done => /\ result.kind = "raise"
                  /\ result.exc.type = "ValueError"
                  /\ Contains(result.exc.msg, "parameter is required")

C11_Witness ==
    /\ Done
    /\ RequiredParameterMissing
    /\ function_name = "Create a custom quantum circuit"
    /\ parameters = ("instructions" :> "")
    /\ calls = <<>>
    /\ response.kind = "http" /\ response.status = 400

\* the four-field mapping both surfaces build from the compiled circuit
CustomMapping(c) ==
    [circuit_representation |-> TextDrawing(c), circuit_drawing |-> TextDrawing(c),
     num_qubits |-> c.num_qubits, num_clbits |-> c.num_clbits]

\* C12: the tool surface and the HTTP surface are two views of the same
\* operations: with a non-empty qasm_code both call execute_circuit with the
\* arguments the request determines in the same way (shots 1024 and backend
\* "aer_simulator" when unspecified) and hand back its mapping unchanged;
\* with valid non-empty instructions both hand back the same four-field
\* mapping of the compiled circuit.
C12_SurfacesAgree ==
    /\ (IsExecute /\ pc \notin {"idle", "dispatch"} /\ calls # <<>>)
          => /\ calls[1] = Enter("execute_circuit", Get(parameters, "qasm_code", ""))
             /\ qasm_code = Get(parameters, "qasm_code", "")
             /\ shots = Get(parameters, "shots", 1024)
             /\ pc = "ec_parse"
                   => backend_name = Get(parameters, "backend", "aer_simulator")
             /\ backend_name \in {Get(parameters, "backend", "aer_simulator"),
                                  "qasm_simulator (fallback)"}
             /\ (Done /\ result.kind = "return") => response.body = result.value
    /\ (Done /\ IsCustom /\ surface \in {"http", "tool"} /\ result.kind = "return")
          => /\ circuit.qasm = NormalizeHeader(Get(parameters, "instructions", ""))
             /\ result.value = CustomMapping(circuit)
             /\ response.body = result.value

\* the tool is called with the source only and the run succeeds
C12_Witness ==
    /\ ExecuteDone
    /\ surface = "tool"
    /\ DOMAIN parameters = {"qasm_code"}
    /\ parameters["qasm_code"] # ""
    /\ shots = 1024
    /\ backend_name = "aer_simulator"
    /\ result.kind = "return"
    /\ result.value.status = "success"
    /\ response.body = result.value

\* step 2 has produced the diagram: the parse succeeded (calls[2]) and the
\* primary rendering (calls[3]) or, after its failure, the fallback (calls[4])
DrawnInStepTwo ==
    /\ Len(calls) >= 3
    /\ calls[2].op = "from_qasm_str" /\ calls[2].error = ""
    /\ calls[3].op = "draw"
    /\ \/ calls[3].error = ""
       \/ Len(calls) >= 4 /\ calls[4].op = "draw" /\ calls[4].error = ""

\* C13: once step 2 of execute_circuit has produced the diagram, every
\* outcome the call returns afterwards, success or failure, carries exactly
\* that diagram in circuit_drawing, never the sentinel.
C13_StepTwoDiagramInEveryOutcome ==
    (ExecuteDone /\ result.kind = "return" /\ DrawnInStepTwo)
    => result.value.circuit_drawing = TextDrawing(circuit)

\* the backend identifier the request asks for
Requested == Get(parameters, "backend", "aer_simulator")

\* the positions in the call log of the backend resolutions
Resolutions == {i \in 1..Len(calls) : calls[i].op = "Aer.get_backend"}

\* the requested name failed to resolve, it was not "qasm_simulator", and
\* "qasm_simulator" then resolved
FellBack ==
    /\ Requested # "qasm_simulator"
    /\ \E i \in Resolutions :
         /\ calls[i].arg = Requested /\ calls[i].error # ""
         /\ i + 1 \in Resolutions
         /\ calls[i + 1].arg = "qasm_simulator" /\ calls[i + 1].error = ""

\* C14: a success outcome reports backend_name "qasm_simulator (fallback)"
\* exactly when the requested name failed to resolve, was not
\* "qasm_simulator", and "qasm_simulator" then resolved; every other success
\* outcome reports the requested identifier. When the fallback resolution
\* fails too, the call returns an error outcome citing that second failure,
\* and nothing is executed.
C14_FallbackNaming ==
    (ExecuteDone /\ result.kind = "return")
    => LET o == result.value
       IN  /\ o.status = "success"
                => /\ o.backend_name = "qasm_simulator (fallback)" <=> FellBack
                   /\ ~ FellBack => o.backend_name = Requested
           /\ \A i \in Resolutions :
                (i + 1 \in Resolutions /\ calls[i + 1].error # "")
                   => /\ calls[i].error # ""
                      /\ calls[i + 1].arg = "qasm_simulator"
                      /\ i + 1 = Len(calls)
                      /\ o.status = "error"
                      /\ StartsWith(o.message, "No simulator available")
                      /\ Contains(o.message, calls[i + 1].error)
                      /\ o.backend_name = Requested

C14_Witness ==
    /\ ExecuteDone
    /\ FellBack
    /\ result.kind = "return"
    /\ result.value.status = "success"
    /\ result.value.backend_name = "qasm_simulator (fallback)"

\* how often an operation appears in the call log
Count(op) == Cardinality({i \in 1..Len(calls) : calls[i].op = op})

\* the calls of the remote path
RemoteOps ==
    {"QiskitRuntimeService", "Session", "Sampler", "sampler.run", "job.result",
     "result.quasi_dists"}

\* the calls of the local path
LocalOps ==
    {"Aer.get_backend", "transpile", "backend.run", "result.get_counts"}

\* the call log holds a call of the remote path
OnRemotePath == \E i \in 1..Len(calls) : calls[i].op = "QiskitRuntimeService"

\* C15: within one execute_circuit call the backend is resolved at most
\* twice, and once only when "qasm_simulator" was requested (its failure
\* ends the call with an error outcome); the circuit is submitted at most
\* once locally; remotely at most one session is opened and one job
\* submitted; a failed remote call is not retried and the local path is
\* never entered after it.
C15_NoRetries ==
    (IsExecute /\ pc # "idle")
    => /\ Count("Aer.get_backend") <= 2
       /\ Requested = "qasm_simulator" => Count("Aer.get_backend") <= 1
       /\ \A i \in Resolutions :
             (calls[i].arg = "qasm_simulator" /\ calls[i].error # "")
                => /\ i = Len(calls)
                   /\ Done /\ result.kind = "return" /\ result.value.status = "error"
       /\ Count("transpile") <= 1
       /\ Count("backend.run") <= 1
       /\ Count("QiskitRuntimeService") <= 1
       /\ Count("Session") <= 1
       /\ Count("sampler.run") <= 1
       /\ OnRemotePath
             => /\ \A i \in 1..Len(calls) : calls[i].op \notin LocalOps
                /\ \A i \in RaisedCalls :
                      calls[i].op \in RemoteOps
                         => /\ \A j \in (i + 1)..Len(calls) :
                                  calls[j].op = "Session.__exit__"
                            /\ Done /\ result.value.status = "error"

\* "qasm_simulator" was requested and did not resolve: one attempt, an error
C15_Witness ==
    /\ ExecuteDone
    /\ Requested = "qasm_simulator"
    /\ Count("Aer.get_backend") = 1
    /\ calls[Len(calls)].op = "Aer.get_backend"
    /\ calls[Len(calls)].error # ""
    /\ result.value.status = "error"

\* the local step of list_available_backends is over, the call is not
InRemoteStep == pc \in {"lb_provider", "lb_backends", "lb_account"}

\* what the local step leaves in backends: the aer_-prefixed names, or one
\* synthetic entry (the error text, or the advisory)
LocalEntries(b) ==
    \/ \E n \in AerNames : b = AerPrefixed(n)
    \/ /\ Len(b) = 1
       /\ \/ \E i \in RaisedCalls :
               calls[i].op = "Aer.backends" /\ Contains(b[1], calls[i].error)
          \/ ~ HAS_AER /\ Contains(b[1], "imulators available")

\* C16: the entries the local step of list_available_backends collected are
\* left unchanged by the remote step: whatever it does, backends keeps them
\* at its beginning, in their order, remote names only follow them, and the
\* returned sequence is that one.
C16_LocalEntriesKept ==
    [][(InRemoteStep /\ pc' # pc)
          => /\ pc = "lb_provider" => LocalEntries(backends)
             /\ Len(backends') >= Len(backends)
             /\ SubSeq(backends', 1, Len(backends)) = backends
             /\ \E n \in ProviderNames \cup {<<>>} :
                   SubSeq(backends', Len(backends) + 1, Len(backends')) = n
             /\ pc' = "done"
                   => /\ result'.kind = "return"
                      /\ result'.value.backends = backends']_vars

\* two local names, then two remote names, then the account lookup fails
C16_Witness ==
    /\ Done /\ IsList
    /\ result.kind = "return"
    /\ result.value.backends =
          <<"aer_simulator", "aer_statevector_simulator", "ibm_kyoto", "ibm_brisbane">>
    /\ \E i \in RaisedCalls : calls[i].op = "provider.active_account"

\* a success outcome of the remote path
RemoteSuccess ==
    /\ ExecuteDone
    /\ quasi # <<>>
    /\ result.kind = "return"
    /\ result.value.status = "success"

\* the sampler reports outcomes of the circuit it was given: the circuit has
\* classical bits and every index is a value of its classical register
IndicesOfTheRegister ==
    /\ circuit.num_clbits >= 1
    /\ \A k \in DOMAIN quasi : k >= 0 /\ k < 2 ^ circuit.num_clbits

\* the integer a string of binary digits denotes
RECURSIVE BinaryValue(_)
BinaryValue(key) ==
    IF Len(key) = 0 THEN 0
    ELSE 2 * BinaryValue(SubSeq(key, 1, Len(key) - 1))
           + (IF SubSeq(key, Len(key), Len(key)) = "1" THEN 1 ELSE 0)

\* the outcome indices whose count is emitted
EmittedIndices == {k \in DOMAIN quasi : 2 * quasi[k] * shots > ProbDen}

\* C17: on the remote path every key of the converted counts is the binary
\* rendering of an outcome index, zero-padded on the left to the circuit's
\* classical-bit count (its width is that count, for the indices of the
\* circuit's classical register); distinct indices give distinct keys, so no
\* two entries of the distribution are merged.
C17_FixedWidthBinaryKeys ==
    RemoteSuccess
    => LET counts == result.value.counts
           w == circuit.num_clbits
       IN  /\ Cardinality(DOMAIN counts) = Cardinality(EmittedIndices)
           /\ \A k \in EmittedIndices :
                 \E key \in DOMAIN counts :
                    /\ BinaryValue(key) = k
                    /\ Len(key) >= w
                    /\ \A i \in 1..Len(key) : SubSeq(key, i, i) \in {"0", "1"}
                    /\ (Len(key) > w /\ Len(key) > 1) => SubSeq(key, 1, 1) = "1"
           /\ IndicesOfTheRegister
                 => \A key \in DOMAIN counts : Len(key) = w

\* two outcomes of a two-bit register, one of them needing a leading zero
C17_Witness ==
    /\ RemoteSuccess
    /\ IndicesOfTheRegister
    /\ circuit.num_clbits = 2
    /\ DOMAIN result.value.counts = {"01", "10"}

Abs(x) == IF x < 0 THEN -x ELSE x

\* C18: on the remote path every value emitted in counts is a strictly
\* positive integer, the nearest integer to probability x shots; an entry
\* whose rounded count is zero or negative is dropped, never emitted.
C18_OnlyPositiveRoundedCounts ==
    RemoteSuccess
    => LET counts == result.value.counts
           w == circuit.num_clbits
       IN  /\ \A key \in DOMAIN counts :
                 /\ counts[key] \in Nat
                 /\ counts[key] > 0
                 /\ \E k \in DOMAIN quasi :
                       /\ key = FormatBinary(k, w)
                       /\ 2 * Abs(ProbDen * counts[key] - quasi[k] * shots) <= ProbDen
           /\ \A k \in DOMAIN quasi :
                 FormatBinary(k, w) \in DOMAIN counts <=> 2 * quasi[k] * shots > ProbDen

\* a negative quasi-probability and a positive one that rounds to zero are
\* both dropped, a third entry is emitted
C18_Witness ==
    /\ RemoteSuccess
    /\ \E k \in DOMAIN quasi : quasi[k] < 0
    /\ \E k \in DOMAIN quasi : quasi[k] > 0 /\ 2 * quasi[k] * shots <= ProbDen
    /\ Cardinality(DOMAIN result.value.counts) = 1

\* the category a parser error text belongs to: the first that matches,
\* whatever the case of the text, in the order syntax error, unregistered
\* gate, undefined identifier, other
CategoryOfText(text) ==
    LET lowered == Lower(text)
    IN  IF Contains(lowered, "syntax error") THEN "syntax error"
        ELSE IF Contains(lowered, "unregistered") /\ Contains(lowered, "gate")
             THEN "unregistered gate"
        ELSE IF Contains(lowered, "not defined") THEN "undefined identifier"
        ELSE "other"

\* the labels under which the two generations wrap an unclassified text
GenericLabels == {"Error in QASM code: ", "QASM error: "}

\* the category a ValueError of the compiler reports, read off its message
CategoryOfMessage(msg) ==
    IF StartsWith(msg, "QASM syntax error") THEN "syntax error"
    ELSE IF StartsWith(msg, "Unregistered gate '") THEN "unregistered gate"
    ELSE IF \E label \in GenericLabels : StartsWith(msg, label) THEN "other"
    ELSE IF StartsWith(msg, "'") /\ Contains(msg, "' is not defined")
         THEN "undefined identifier"
    ELSE "none"

\* C19: for every parser error text create_custom_circuit raises a
\* ValueError whose category is the first that matches, case-insensitively,
\* in the order syntax error, unregistered gate, undefined identifier, other;
\* a text matching none is wrapped unmodified under the generic label; both
\* generations of the compiler give every text the same category.
C19_FailureClassification ==
    \A label \in DOMAIN compiled :
       LET run == compiled[label]
           parsed == parser[run.handed]
       IN  (parsed.kind = "raise" /\ parsed.exc.type = "QiskitError")
           => LET text == parsed.exc.msg
              IN  /\ run.outcome.kind = "raise"
                  /\ run.outcome.exc.type = "ValueError"
                  /\ CategoryOfMessage(run.outcome.exc.msg) = CategoryOfText(text)
                  /\ CategoryOfText(text) = "other"
                        => \E generic \in GenericLabels :
                              run.outcome.exc.msg = generic \o text
                  /\ CategoryOfMessage(ClassifyCircuits(text).msg)
                        = CategoryOfMessage(ClassifyTools(text).msg)

\* a text that is a syntax error and an undefined identifier at once, and is
\* reported as a syntax error
C19_Witness ==
    /\ pc = "compile"
    /\ "bare" \in DOMAIN compiled
    /\ parser[compiled["bare"].handed]
          = Raises(Exc("QiskitError", "syntax error: gate 'u9' is not defined"))
    /\ compiled["bare"].outcome.kind = "raise"
    /\ CategoryOfMessage(compiled["bare"].outcome.exc.msg) = "syntax error"

\* the requested identifier selects the local path
LocalRequested == IsLocalBackend(Requested)

\* the capability the selected path needs is missing
CapabilityMissing ==
    IF LocalRequested THEN ~ HAS_AER
    ELSE ~ HAS_IBM_PROVIDER \/ ~ HAS_IBM_RUNTIME

\* C20: when the capability flag of the selected path is false,
\* execute_circuit returns an error outcome without attempting anything on
\* that path: no resolution, transpile or run locally; no service, session
\* or job remotely; and the message names the missing capability (the
\* provider when the provider is missing, the runtime when only the runtime
\* is missing).
C20_CapabilityGating ==
    (IsExecute /\ pc \notin {"idle", "dispatch"} /\ calls # <<>> /\ CapabilityMissing)
    => /\ \A i \in 1..Len(calls) :
             calls[i].op \notin LocalOps \cup RemoteOps \cup {"Session.__exit__"}
       /\ session = "none"
       /\ Done => /\ result.kind = "return"
                  /\ result.value.status = "error"
                  /\ "counts" \notin DOMAIN result.value
       /\ (Done /\ DrawnInStepTwo)
             => LET o == result.value
                IN  /\ calls[Len(calls)].op = "draw"
                    /\ o.circuit_drawing = TextDrawing(circuit)
                    /\ o.backend_name = Requested
                    /\ (LocalRequested /\ ~ HAS_AER)
                          => /\ StartsWith(o.message, "Local simulator not available")
                             /\ Contains(o.message, "qiskit-aer")
                    /\ (~ LocalRequested /\ ~ HAS_IBM_PROVIDER)
                          => /\ StartsWith(o.message, "IBM Quantum provider not available")
                             /\ Contains(o.message, "qiskit-ibm-provider")
                    /\ (~ LocalRequested /\ HAS_IBM_PROVIDER /\ ~ HAS_IBM_RUNTIME)
                          => /\ StartsWith(o.message, "IBM Quantum Runtime not available")
                             /\ Contains(o.message, "qiskit-ibm-runtime")

\* the provider is there and the runtime is not: the message names the runtime
C20_Witness ==
    /\ ExecuteDone
    /\ ~ LocalRequested
    /\ HAS_IBM_PROVIDER /\ ~ HAS_IBM_RUNTIME
    /\ DrawnInStepTwo
    /\ result.value.status = "error"
    /\ Contains(result.value.message, "Runtime not available")

\* the calls only the remote path makes
RemoteOnlyOps ==
    {"QiskitRuntimeService", "Session", "Session.__exit__", "Sampler",
     "sampler.run", "result.quasi_dists"}

\* the positions of the program only one of the two paths goes through
LocalPositions ==
    {"ec_get_backend", "ec_fallback", "ec_transpile", "ec_run", "ec_result",
     "ec_get_counts"}
RemotePositions ==
    {"ec_service", "ec_session", "ec_sampler", "ec_submit", "ec_job_result",
     "ec_convert"}

\* C21: backend selection in execute_circuit is a total, exclusive choice:
\* the local path is taken exactly when the identifier starts with "aer_" or
\* is "qasm_simulator", the remote path otherwise; one call never performs
\* actions of both paths, whatever fails.
C21_ExclusiveSelection ==
    (IsExecute /\ pc \notin {"idle", "dispatch"} /\ calls # <<>>)
    => LET local == \/ SubSeq(Requested, 1, 4) = "aer_"
                    \/ Requested = "qasm_simulator"
       IN  /\ local => /\ \A i \in 1..Len(calls) : calls[i].op \notin RemoteOnlyOps
                       /\ pc \notin RemotePositions
                       /\ session = "none"
                       /\ quasi = <<>>
           /\ ~ local => /\ \A i \in 1..Len(calls) : calls[i].op \notin LocalOps
                         /\ pc \notin LocalPositions
                         /\ backend_name = Requested
           /\ (Done /\ DrawnInStepTwo /\ ~ CapabilityMissing)
                 => IF local THEN Count("Aer.get_backend") >= 1
                    ELSE Count("QiskitRuntimeService") = 1

\* the legacy alias is run locally, through to a failing job
C21_Witness ==
    /\ ExecuteDone
    /\ Requested = "qasm_simulator"
    /\ Count("Aer.get_backend") = 1
    /\ \E i \in RaisedCalls : calls[i].op = "backend.run"
    /\ result.value.status = "error"

\* C23: every error outcome of execute_circuit carries a backend_name, the
\* identifier the caller requested, also when the requested and the fallback
\* resolution both fail; only a failure after a successful fallback
\* substitution carries "qasm_simulator (fallback)".
C23_BackendNameInErrorOutcomes ==
    (ExecuteDone /\ result.kind = "return" /\ result.value.status = "error")
    => /\ "backend_name" \in DOMAIN result.value
       /\ result.value.backend_name =
             IF FellBack THEN "qasm_simulator (fallback)" ELSE Requested
       /\ FellBack => \E i \in RaisedCalls :
                         /\ calls[i].op \in {"transpile", "backend.run", "job.result",
                                             "result.get_counts"}
                         /\ \E j \in Resolutions : j < i

\* the requested name and "qasm_simulator" both fail to resolve
C23_Witness ==
    /\ ExecuteDone
    /\ Requested = "aer_simulator"
    /\ Count("Aer.get_backend") = 2
    /\ \A i \in Resolutions : calls[i].error # ""
    /\ result.value.status = "error"
    /\ result.value.backend_name = "aer_simulator"

\* the capability messages of the path selection
CapabilityMessages ==
    {"Local simulator not available. Please install qiskit-aer with: pip install qiskit-aer",
     "IBM Quantum provider not available. Please install with: pip install qiskit-ibm-provider",
     "IBM Quantum Runtime not available. Please install with: pip install qiskit-ibm-runtime"}

\* C24: parsing precedes every other step of execute_circuit, and the source
\* reaches the parser as the caller wrote it (no header is prepended, unlike
\* create_custom_circuit). When the source fails to parse, the call returns,
\* for every backend identifier and every value of the flags, an error
\* outcome with the parse failure's message and the sentinel diagram, and
\* there is no capability verdict, resolution, session or job in that call.
C24_ParsingFirst ==
    (IsExecute /\ pc \notin {"idle", "dispatch"} /\ Len(calls) >= 2)
    => /\ calls[2].op = "from_qasm_str"
       /\ calls[2].arg = Get(parameters, "qasm_code", "")
       /\ calls[2].error # ""
             => /\ \A i \in 1..Len(calls) :
                      calls[i].op \in {"execute_circuit", "from_qasm_str", "draw"}
                /\ pc \in {"ec_handler_parse", "ec_handler_draw", "done"}
                /\ session = "none"
                /\ backend_name = Requested
                /\ Done => /\ result.kind = "return"
                           /\ result.value.status = "error"
                           /\ Contains(result.value.message, calls[2].error)
                           /\ result.value.message \notin CapabilityMessages
                           /\ result.value.backend_name = Requested
                           /\ calls[3].op = "from_qasm_str"
                           /\ calls[3].error # ""
                                 => /\ Len(calls) = 3
                                    /\ result.value.circuit_drawing = CouldNotDraw

\* a header-less source, which create_custom_circuit would patch, is rejected
\* by the parser with every capability missing
C24_Witness ==
    /\ ExecuteDone
    /\ ~ HAS_AER /\ ~ HAS_IBM_PROVIDER
    /\ qasm_code = "h q[0];"
    /\ NormalizeHeader(qasm_code) # qasm_code
    /\ calls[2].arg = "h q[0];"
    /\ calls[2].error = "'q' is not defined"
    /\ calls[3].error # ""
    /\ result.value.circuit_drawing = CouldNotDraw

\* What execute_circuit returns to a call that runs alone, read off the call's
\* own request and the behaviour of the delegates it called (its log, the
\* sampler's result, the parsed circuit): the name it reports,
AloneName(f) ==
    LET requested == Get(f.parameters, "backend", "aer_simulator")
    IN  IF /\ requested # "qasm_simulator"
           /\ \E i \in 1..Len(f.calls) :
                 /\ f.calls[i].op = "Aer.get_backend"
                 /\ f.calls[i].arg = "qasm_simulator"
                 /\ f.calls[i].error = ""
        THEN "qasm_simulator (fallback)"
        ELSE requested

\* the failure that reached the outer except clauses, if any: of the first
\* parse, of the fallback rendering of step two, or of a step of the local run
Escalated(log) ==
    {i \in 2..Len(log) :
        /\ log[i].error # ""
        /\ \/ log[i].op \in {"transpile", "backend.run", "result.get_counts"}
           \/ /\ log[i].op = "job.result"
              /\ \A j \in 1..Len(log) : log[j].op # "Session"
           \/ log[i].op = "from_qasm_str" /\ i = 2
           \/ log[i].op = "draw" /\ log[i].arg = "str" /\ log[i - 1].op = "draw"}

\* and the outcomes, one for each elapsed time and local tally
AloneOutcomes(f) ==
    LET log       == f.calls
        last      == log[Len(log)]
        requested == Get(f.parameters, "backend", "aer_simulator")
        code      == Get(f.parameters, "qasm_code", "")
        n         == Get(f.parameters, "shots", 1024)
        drawn     == TextDrawing(Circuit(code, 1))
        remote    == {i \in 1..Len(log) :
                        /\ log[i].error # ""
                        /\ log[i].op \in RemoteOnlyOps \cup {"job.result"}}
    IN  IF Escalated(log) # {}
        THEN LET h == CHOOSE i \in Escalated(log) : TRUE
                 rendered == Len(log) > h /\ last.op = "draw" /\ last.error = ""
             IN  {ErrorOutcome(HandlerMessage(e),
                               IF rendered THEN drawn ELSE CouldNotDraw,
                               AloneName(f)) :
                    e \in {x \in Raised \cup ParseRaised : x.msg = log[h].error}}
        ELSE IF last.op = "Aer.get_backend" /\ last.error # ""
        THEN {ErrorOutcome(
                (IF last.arg = requested
                 THEN "Requested simulator '" \o requested \o "' not available: "
                 ELSE "No simulator available: ")
                   \o last.error \o ". Please check your qiskit-aer installation.",
                drawn, requested)}
        ELSE IF remote # {}
        THEN {ErrorOutcome("Error using IBM Quantum Runtime: " \o log[i].error
                              \o ". Make sure you have the right access permissions.",
                           drawn, requested) : i \in remote}
        ELSE IF last.op = "draw"
        THEN {ErrorOutcome(
                IF StartsWith(requested, "aer_") \/ requested = "qasm_simulator"
                THEN "Local simulator not available. Please install qiskit-aer with: pip install qiskit-aer"
                ELSE IF ~ HAS_IBM_PROVIDER
                THEN "IBM Quantum provider not available. Please install with: pip install qiskit-ibm-provider"
                ELSE "IBM Quantum Runtime not available. Please install with: pip install qiskit-ibm-runtime",
                drawn, requested)}
        ELSE IF last.op = "result.get_counts"
        THEN {SuccessOutcome(t, drawn, AloneName(f), elapsed) :
                 t \in LocalTallies(n), elapsed \in 0..MaxElapsed}
        ELSE {SuccessOutcome(FormatCounts(f.quasi, n, f.circuit.num_clbits),
                             drawn, requested, elapsed) :
                 elapsed \in 0..MaxElapsed}

\* a call in flight works on its own arguments, and once served its caller
\* has the outcome the call returns when it runs alone
AsAlone(f) ==
    /\ f.qasm_code = Get(f.parameters, "qasm_code", "")
    /\ f.shots = Get(f.parameters, "shots", 1024)
    /\ f.backend_name = AloneName(f)
    /\ f.pc = "done"
          => /\ f.result.kind = "return"
             /\ f.result.value \in AloneOutcomes(f)
             /\ f.response = IF f.surface = "http" THEN HttpOk(f.result.value)
                             ELSE ToolResult(f.result.value)

\* C22: calls are independent under concurrency: with two execute_circuit
\* calls in flight, for different backends, one of which can fall back, and
\* their steps interleaved in any order, each call returns the outcome it
\* returns when run alone against the same delegate behaviour, and no step
\* changes the capability flags.
C22_CallsIndependent ==
    /\ [](suspended # <<>> => AsAlone(Frame) /\ AsAlone(suspended))
    /\ [][/\ HAS_AER' = HAS_AER
          /\ HAS_IBM_PROVIDER' = HAS_IBM_PROVIDER
          /\ HAS_IBM_RUNTIME' = HAS_IBM_RUNTIME]_vars

\* the remote call has been served with its own name and counts while the
\* local call, renamed by its fallback, is preempted in the middle of its run
C22_Witness ==
    /\ suspended # <<>>
    /\ suspended.pc = "ec_run"
    /\ suspended.backend_name = "qasm_simulator (fallback)"
    /\ pc = "done"
    /\ Requested = "ibm_brisbane"
    /\ result.value.status = "success"
    /\ result.value.backend_name = "ibm_brisbane"
    /\ TotalCount(result.value.counts) = MaxShots

====
